---- MODULE Spec2Model ----
(***************************************************************************)
(* Model of the evolutionary algorithm of brain-farm-rs (crate evo):       *)
(* fitness calculation, tournament selection, elite partition and elite    *)
(* injection, and the Run::run orchestration built from them.              *)
(***************************************************************************)
EXTENDS Integers, Sequences, FiniteSets, TLC

(***************************************************************************)
(* Bounds of the model.                                                    *)
(***************************************************************************)
MaxGen == 3
MaxElitism == 2
MaxTournament == 3
MaxCand == 3
MaxFit == 2
MaxTraining == 2
MaxEntities == 3
MaxGenes == 2
EpsilonBits == 4
MaxPool == 2
MaxVec == 4
MaxBred == 3

(***************************************************************************)
(* f64 values.  A value is NaN, a signed infinity, or a finite number kept *)
(* as a normalised fraction n/d (every number the model produces is a      *)
(* small dyadic rational, which f64 represents exactly).                   *)
(***************************************************************************)
RECURSIVE GCD(_, _)
GCD(a, b) == IF b = 0 THEN a ELSE GCD(b, a % b)

Abs(x) == IF x < 0 THEN -x ELSE x

Sign(x) == IF x < 0 THEN -1 ELSE IF x = 0 THEN 0 ELSE 1

NaN == [k |-> "nan", n |-> 0, d |-> 1]

Inf(s) == [k |-> "inf", n |-> s, d |-> 1]

Fin(n, d) ==
    LET g == GCD(Abs(n), Abs(d))
        s == Sign(d)
    IN  [k |-> "fin", n |-> (s * n) \div g, d |-> (s * d) \div g]

Num(i) == Fin(i, 1)

is_nan(x) == x.k = "nan"

is_infinite(x) == x.k = "inf"

is_finite(x) == x.k = "fin"

F_neg(x) == IF x.k = "fin" THEN Fin(-x.n, x.d) ELSE IF x.k = "inf" THEN Inf(-x.n) ELSE NaN

F_add(a, b) ==
    IF is_nan(a) \/ is_nan(b) THEN NaN
    ELSE IF is_infinite(a) /\ is_infinite(b) THEN (IF a.n = b.n THEN a ELSE NaN)
    ELSE IF is_infinite(a) THEN a
    ELSE IF is_infinite(b) THEN b
    ELSE Fin(a.n * b.d + b.n * a.d, a.d * b.d)

F_sub(a, b) == F_add(a, F_neg(b))

F_mul(a, b) ==
    IF is_nan(a) \/ is_nan(b) THEN NaN
    ELSE IF is_infinite(a) \/ is_infinite(b)
         THEN (IF a.n = 0 \/ b.n = 0 THEN NaN ELSE Inf(Sign(a.n) * Sign(b.n)))
    ELSE Fin(a.n * b.n, a.d * b.d)

F_div(a, b) ==
    IF is_nan(a) \/ is_nan(b) THEN NaN
    ELSE IF is_infinite(a) THEN (IF is_infinite(b) THEN NaN
                                 ELSE Inf(a.n * (IF b.n < 0 THEN -1 ELSE 1)))
    ELSE IF is_infinite(b) THEN Num(0)
    ELSE IF b.n = 0 THEN (IF a.n = 0 THEN NaN ELSE Inf(Sign(a.n)))
    ELSE Fin(a.n * b.d, a.d * b.n)

powi2(x) == F_mul(x, x)

\* f64::partial_cmp: None when either side is NaN.
F_partial_cmp(a, b) ==
    IF is_nan(a) \/ is_nan(b) THEN "None"
    ELSE IF is_infinite(a) \/ is_infinite(b)
         THEN (IF is_infinite(a) /\ is_infinite(b)
               THEN (IF a.n = b.n THEN "Equal" ELSE IF a.n < b.n THEN "Less" ELSE "Greater")
               ELSE IF is_infinite(a) THEN (IF a.n < 0 THEN "Less" ELSE "Greater")
               ELSE (IF b.n < 0 THEN "Greater" ELSE "Less"))
    ELSE IF a.n * b.d < b.n * a.d THEN "Less"
    ELSE IF a.n * b.d = b.n * a.d THEN "Equal"
    ELSE "Greater"

RECURSIVE F_sum(_)
F_sum(s) == IF s = <<>> THEN Num(0) ELSE F_add(Head(s), F_sum(Tail(s)))

(***************************************************************************)
(* Results of the fitness calculation.                                     *)
(***************************************************************************)
Ok(v) == [ok |-> TRUE, val |-> v, err |-> "none"]

Err(e) == [ok |-> FALSE, val |-> NaN, err |-> e]

\* Number of significant bits of x once its trailing zero bits are dropped.
RECURSIVE SignificantBits(_)
SignificantBits(x) ==
    IF x = 0 THEN 0
    ELSE IF x % 2 = 0 THEN SignificantBits(x \div 2)
    ELSE 1 + SignificantBits((x - 1) \div 2)

MantissaBits == 53

\* usize -> f64 -> usize is the identity exactly when x fits the mantissa.
convert(x) ==
    IF SignificantBits(x) <= MantissaBits THEN Ok(Num(x)) ELSE Err("CannotConvert")

\* Mutation of checked_divide: an infinite quotient is let through.
checked_divide_unchecked_inf(numerator, denominator) ==
    LET result == F_div(numerator, denominator)
    IN  IF is_nan(result) THEN Err("ResultNaN") ELSE Ok(result)

\* Mutation of checked_divide: a zero denominator yields the sentinel 0.
checked_divide_zero_sentinel(numerator, denominator) ==
    LET result == F_div(numerator, denominator)
    IN  IF denominator = Num(0) THEN Ok(Num(0))
        ELSE IF is_nan(result) THEN Err("ResultNaN")
        ELSE IF is_infinite(result) THEN Err("ResultInfinite")
        ELSE Ok(result)

checked_divide(numerator, denominator) ==
    LET result == F_div(numerator, denominator)
    IN  IF is_nan(result) THEN Err("ResultNaN")
        ELSE IF is_infinite(result) THEN Err("ResultInfinite")
        ELSE Ok(result)

Min(a, b) == IF a < b THEN a ELSE b

\* The genome of the crate's tests: predict multiplies every input by value.
Genome_predict(genome, input) == [i \in 1..Len(input) |-> F_mul(input[i], genome)]

\* A predictor that ignores its input, as TestPredict (which returns [0.0]).
ConstPredictor(out) == [k |-> "const", out |-> out]

TestPredict_predict(p, input) == p.out

\* Predict::predict, dispatched on the implementor: a genome is an f64 value.
predict(genome, input) ==
    IF genome.k = "const" THEN TestPredict_predict(genome, input)
    ELSE Genome_predict(genome, input)

\* Mutation of get_mse: the errors are not squared.
get_mse_unsquared(record, actual) ==
    [i \in 1..Min(Len(record.output), Len(actual)) |->
        F_sub(record.output[i], actual[i])]

\* TrainingRecord::get_mse: squared errors over the zipped (expected, actual).
get_mse(record, actual) ==
    [i \in 1..Min(Len(record.output), Len(actual)) |->
        powi2(F_sub(record.output[i], actual[i]))]

get_mse_iter(training_data, genome) ==
    [t \in 1..Len(training_data) |->
        get_mse(training_data[t], predict(genome, training_data[t].input))]

\* Sum of an iterator of Results: stops at the first Err.
RECURSIVE SumResults(_)
SumResults(rs) ==
    IF rs = <<>> THEN Ok(Num(0))
    ELSE IF ~Head(rs).ok THEN Head(rs)
    ELSE LET rest == SumResults(Tail(rs))
         IN  IF rest.ok THEN Ok(F_add(Head(rs).val, rest.val)) ELSE rest

RecordMse(x) ==
    LET x_len == convert(Len(x))
    IN  IF ~x_len.ok THEN x_len ELSE checked_divide(F_sum(x), x_len.val)

check(training_data, genome) ==
    LET len == convert(Len(training_data))
        mses == get_mse_iter(training_data, genome)
        mse_sum == SumResults([t \in 1..Len(mses) |-> RecordMse(mses[t])])
    IN  IF ~len.ok THEN len
        ELSE IF ~mse_sum.ok THEN mse_sum
        ELSE checked_divide(mse_sum.val, len.val)

(***************************************************************************)
(* Compare records and the helpers of the algorithm.                       *)
(***************************************************************************)
CompareRecord(fitness, genome) == [fitness |-> fitness, predict |-> genome]

\* PartialOrd for Record: compares the fitness only.
Record_partial_cmp(left, right) == F_partial_cmp(left.fitness, right.fitness)

\* FitnessCalc::create_compare_record: check, then wrap genome and fitness.
create_compare_record(training, genome) ==
    LET fitness == check(training, genome)
    IN  IF fitness.ok THEN [ok |-> TRUE, rec |-> CompareRecord(fitness.val, genome), err |-> "none"]
        ELSE [ok |-> FALSE, rec |-> CompareRecord(NaN, genome), err |-> fitness.err]

\* Mutation of rank_generation: the records of failed evaluations are kept.
rank_generation_keep(training, gen) ==
    [i \in 1..Len(gen) |-> create_compare_record(training, gen[i]).rec]

\* filter_map(...ok()): keeps, in order, the genomes whose record was built.
RECURSIVE rank_generation(_, _)
rank_generation(training, gen) ==
    IF gen = <<>> THEN <<>>
    ELSE LET r == create_compare_record(training, Head(gen))
             rest == rank_generation(training, Tail(gen))
         IN  IF r.ok THEN <<r.rec>> \o rest ELSE rest

unrank_generation(ranked) == [i \in 1..Len(ranked) |-> ranked[i].predict]

\* Mutation of SortInsert: r goes before the first element it is not
\* Greater than, so that equal records end up in reverse order.
RECURSIVE SortInsert_before_equal(_, _)
SortInsert_before_equal(sorted, r) ==
    IF sorted = <<>> THEN <<r>>
    ELSE IF Record_partial_cmp(r, Head(sorted)) \in {"Less", "Equal"} THEN <<r>> \o sorted
    ELSE <<Head(sorted)>> \o SortInsert_before_equal(Tail(sorted), r)

\* Stable insertion: r goes before the first element it is Less than.
RECURSIVE SortInsert(_, _)
SortInsert(sorted, r) ==
    IF sorted = <<>> THEN <<r>>
    ELSE IF Record_partial_cmp(r, Head(sorted)) = "Less" THEN <<r>> \o sorted
    ELSE <<Head(sorted)>> \o SortInsert(Tail(sorted), r)

\* Vec::sort_by (stable) with partial_cmp(..).unwrap_or(Equal).
RECURSIVE sort_generation(_)
sort_generation(cands) ==
    IF cands = <<>> THEN <<>>
    ELSE SortInsert(sort_generation(SubSeq(cands, 1, Len(cands) - 1)), cands[Len(cands)])

\* Mutation of partition_elite: the pool is truncated without being sorted.
partition_elite_unsorted(elit, ranked) ==
    SubSeq(unrank_generation(ranked), 1, Min(elit, Len(ranked)))

partition_elite(elit, ranked) ==
    LET sorted_generation == unrank_generation(sort_generation(ranked))
        n == Min(elit, Len(sorted_generation))
    IN  SubSeq(sorted_generation, 1, n)

(***************************************************************************)
(* Tournament selection.  A shuffle is a permutation of the indexes of the *)
(* candidates; records are identified by their index (select returns a    *)
(* reference into the slice), 0 standing for None.                         *)
(***************************************************************************)
RECURSIVE PermSeqs(_)
PermSeqs(S) ==
    IF S = {} THEN {<<>>}
    ELSE UNION {{<<x>> \o p : p \in PermSeqs(S \ {x})} : x \in S}

Shuffles(n) == PermSeqs(1..n)

Tournament_tournament_size(tsize, cands) == Min(tsize, Len(cands))

\* Mutation of tournament_iter: the take(tournament_size) is missing.
tournament_iter_all(tsize, cands, shuffle) == shuffle

\* The indexes visited by tournament_iter: the prefix of the shuffle.
tournament_iter(tsize, cands, shuffle) ==
    SubSeq(shuffle, 1, Tournament_tournament_size(tsize, cands))

\* Mutation of SelectStep: the comparison is inverted, the worse record wins.
SelectStep_worst(cands, w, candidate) ==
    IF w = 0 THEN candidate
    ELSE IF Record_partial_cmp(cands[w], cands[candidate]) = "Greater" THEN w
    ELSE candidate

\* Mutation of SelectStep: the held winner is kept on a tie.
SelectStep_keep_tie(cands, w, candidate) ==
    IF w = 0 THEN candidate
    ELSE IF Record_partial_cmp(cands[w], cands[candidate]) \in {"Less", "Equal"} THEN w
    ELSE candidate

\* One step of the loop of select.
SelectStep(cands, w, candidate) ==
    IF w = 0 THEN candidate
    ELSE IF Record_partial_cmp(cands[w], cands[candidate]) = "Less" THEN w
    ELSE candidate

RECURSIVE SelectFold(_, _, _)
SelectFold(cands, w, ids) ==
    IF ids = <<>> THEN w
    ELSE SelectFold(cands, SelectStep(cands, w, Head(ids)), Tail(ids))

select(tsize, cands, shuffle) == SelectFold(cands, 0, tournament_iter(tsize, cands, shuffle))

\* Every index select can return for some shuffle.
SelectOutcomes(tsize, cands) == {select(tsize, cands, p) : p \in Shuffles(Len(cands))}

None == [some |-> FALSE, rec |-> CompareRecord(NaN, NaN)]

Some(r) == [some |-> TRUE, rec |-> r]

\* Every Option<&CompareRecord> select can return for some shuffle.
SelectedRecords(tsize, cands) ==
    {IF i = 0 THEN None ELSE Some(cands[i]) : i \in SelectOutcomes(tsize, cands)}

(***************************************************************************)
(* Breeding: the breeder of the crate's tests (crossover is the mean of    *)
(* the parents); mutate adds a shift to the value, 0 being the default     *)
(* identity mutation of the Breed trait.                                   *)
(***************************************************************************)
crossover(left, right) == F_div(F_add(left, right), Num(2))

MutationShifts == {Num(0), NaN}

mutate(genome, shift) == F_add(genome, shift)

\* The breeders: "Breeder" keeps the default mutate of the Breed trait (the
\* identity), "MutatingBreeder" overrides it.
BreederKinds == {"Breeder", "MutatingBreeder"}

\* The shifts the mutate of a breeder can add.
Breeder_shifts(b) == IF b = "Breeder" THEN {Num(0)} ELSE MutationShifts

\* A call of a method of the breeder: its arguments and what it returned.
Call(fn, args, ret) == [fn |-> fn, args |-> args, ret |-> ret]

\* Mutation of Manager_breed: the left parent is mutated, then crossed.
Manager_breed_mutate_first(left, right, shift) ==
    LET m == mutate(left, shift)
        c == crossover(m, right)
    IN  [offspring |-> c,
         calls |-> <<Call("mutate", <<left>>, m), Call("crossover", <<m, right>>, c)>>]

\* Manager::breed: the offspring and the calls made to the breeder, in order.
Manager_breed(left, right, shift) ==
    LET c == crossover(left, right)
        m == mutate(c, shift)
    IN  [offspring |-> m,
         calls |-> <<Call("crossover", <<left, right>>, c), Call("mutate", <<c>>, m)>>]

breed(left, right, shift) == Manager_breed(left, right, shift).offspring

(***************************************************************************)
(* inject::genomes, one elite at a time: slot index (1-based) is drawn in  *)
(* 1..Len(gen) and overwritten with the elite genome.                      *)
(***************************************************************************)
\* Mutation of inject_one: the genome is inserted at the drawn slot.
inject_one_inserted(gen, genome, index) ==
    SubSeq(gen, 1, index - 1) \o <<genome>> \o SubSeq(gen, index, Len(gen))

\* Mutation of inject_one: the genome is pushed at the end.
inject_one_appended(gen, genome, index) == Append(gen, genome)

\* Mutation of inject_one: the slot next to the drawn one is overwritten.
inject_one_shifted(gen, genome, index) == [gen EXCEPT ![(index % Len(gen)) + 1] = genome]

inject_one(gen, genome, index) == [gen EXCEPT ![index] = genome]

(***************************************************************************)
(* State.                                                                  *)
(***************************************************************************)
VARIABLES
    generation,         \* the generation handed to Run::run
    training_data,      \* FitnessCalc.training_data
    elitism,            \* Run.elitism
    tournament_size,    \* Run.tournament_size / Tournament.tournament_size
    pc,                 \* position inside Run::run
    ranked_generation,  \* the ranked pool
    next_generation,    \* the records pushed by the breed loop
    left,               \* the last left parent selected by the breed loop
    right,              \* the last right parent selected by the breed loop
    child,              \* what the last iteration of the breed loop did
    elite,              \* the elite genomes still to be injected
    slots,              \* the indexes drawn so far by the injection
    result,             \* the generation being injected into / returned
    candidates,         \* the slice handed to Tournament::select
    sample,             \* the indexes visited by the last select
    winner,             \* the index returned by the last select, 0 = None
    builder,            \* the fields of the run::Builder
    built,              \* what Builder::build returned
    predictor,          \* the predictor handed to FitnessCalc::check
    check_result,       \* what the last check returned
    entities,           \* the slice handed to FitnessCalc::best_entity
    comparator,         \* the Compare implementation handed to best_entity
    best,               \* what the last best_entity returned, idx 0 = None
    compare_calls,      \* how often best_entity called the comparator
    gene_left,          \* self of the last f64 crossover
    gene_right,         \* other of the last f64 crossover
    gene_child,         \* what the last f64 crossover returned
    vec_left,           \* self of the last Vec crossover
    vec_right,          \* other of the last Vec crossover
    vec_child,          \* what the last Vec crossover returned
    neuron,             \* the neuron genome handed to mutate
    mutator,            \* the Mutator: mutation_rate and mutation_size
    mutated,            \* the neuron genome as mutated so far
    vec_mutation,       \* the VecMutation generated by mutate_weights
    breeder,            \* the Breed implementation of the run or of the manager
    breed_left,         \* left of the last Manager::breed
    breed_right,        \* right of the last Manager::breed
    offspring,          \* what the last Manager::breed returned
    breed_calls,        \* the calls the last Manager::breed made to its breeder
    vec_target,         \* the vector handed to VecMutation::apply
    vec_applied,        \* the vector as VecMutation::apply left it
    target,             \* the target handed to Mutator::mutate
    target_mutated,     \* what Mutator::mutate returned
    population,         \* the network genomes that breed
    bred                \* how many offspring the population has bred

builderVars == <<builder, built>>

calcVars == <<predictor, check_result, entities, comparator, best, compare_calls>>

crossoverVars == <<gene_left, gene_right, gene_child, vec_left, vec_right, vec_child>>

mutateVars == <<neuron, mutator, mutated, vec_mutation>>

breedVars == <<breeder, breed_left, breed_right, offspring, breed_calls>>

farmVars == <<vec_target, vec_applied, target, target_mutated, population, bred>>

vars == <<generation, training_data, elitism, tournament_size, pc,
          ranked_generation, next_generation, left, right, child,
          elite, slots, result, candidates, sample, winner,
          builderVars, calcVars, crossoverVars, mutateVars, breedVars, farmVars>>

runVars == <<generation, training_data, elitism, pc, ranked_generation,
             next_generation, left, right, child, elite, slots, result>>

selectVars == <<candidates, sample, winner>>

(***************************************************************************)
(* The values of the parts of the state that a specification leaves alone. *)
(***************************************************************************)
\* Option<T>.
OptNone == [some |-> FALSE, val |-> "none"]

OptSome(v) == [some |-> TRUE, val |-> v]

\* Builder::default(): elitism 1, tournament_size 10, no collaborator.
Builder_default ==
    [elitism |-> 1, tournament_size |-> 10, breeder |-> OptNone, fitness_calc |-> OptNone]

NotBuilt == [ok |-> FALSE, run |-> "none", err |-> "none"]

NotChecked == [ok |-> FALSE, val |-> NaN, err |-> "none"]

NoBest == [ok |-> FALSE, idx |-> 0, err |-> "none"]

NeuronGenome(activator, weights, bias) ==
    [activator |-> activator, weights |-> weights, bias |-> bias]

ActivatorGenome(activator) == [activator |-> activator]

NoNeuron == NeuronGenome(ActivatorGenome("Linear"), <<>>, Num(0))

Mutator(mutation_rate, mutation_size) ==
    [mutation_rate |-> mutation_rate, mutation_size |-> mutation_size]

NoVecMutation == [kind |-> "none", i |-> 0, j |-> 0, element |-> NaN]

BuilderIdle == builder = Builder_default /\ built = NotBuilt

CalcIdle ==
    /\ predictor = Num(0)
    /\ check_result = NotChecked
    /\ entities = <<>>
    /\ comparator = "Comparator"
    /\ best = NoBest
    /\ compare_calls = 0

CrossoverIdle ==
    /\ gene_left = Num(0)
    /\ gene_right = Num(0)
    /\ gene_child = Num(0)
    /\ vec_left = <<>>
    /\ vec_right = <<>>
    /\ vec_child = <<>>

MutateIdle ==
    /\ neuron = NoNeuron
    /\ mutator = Mutator(Num(0), Num(0))
    /\ mutated = NoNeuron
    /\ vec_mutation = NoVecMutation

SelectIdle == candidates = <<>> /\ sample = <<>> /\ winner = 0

\* A target of Mutator::mutate: what it is (f64, bool, gene, neuron, layer
\* or network) and its value.
Target(kind, val) == [kind |-> kind, val |-> val]

FarmIdle ==
    /\ vec_target = <<>>
    /\ vec_applied = <<>>
    /\ target = Target("f64", Num(0))
    /\ target_mutated = Target("f64", Num(0))
    /\ population = <<>>
    /\ bred = 0

\* A run breeds with a breeder that overrides mutate unless its Init says
\* otherwise; no Manager::breed has been called on its own.
BreedIdle ==
    /\ breeder = "MutatingBreeder"
    /\ breed_left = Num(0)
    /\ breed_right = Num(0)
    /\ offspring = Num(0)
    /\ breed_calls = <<>>

GenomeValues == {NaN, Inf(1), Num(1), Num(2)}

RECURSIVE SeqsUpTo(_, _)
SeqsUpTo(S, n) ==
    IF n = 0 THEN {<<>>}
    ELSE LET shorter == SeqsUpTo(S, n - 1)
         IN  shorter \cup {Append(q, x) : q \in {r \in shorter : Len(r) = n - 1}, x \in S}

TrainingRecord(input, output) == [input |-> input, output |-> output]

\* The training sets: none, and one record that tells genomes apart (the
\* fitness of a genome is its value squared).
TrainingSets ==
    { <<>>,
      <<TrainingRecord(<<Num(1)>>, <<Num(0)>>)>> }

\* Tournament sizes of a run: nothing sampled, one record, the whole pool.
TournamentSizes == {0, 1, MaxGen}

NoChild == [state |-> "none", genome |-> NaN]

\* Mutation of LoopContinues: the loop stops one offspring short.
LoopContinues_one_short(next, ranked) == Len(next) + 1 < Len(ranked)

\* Mutation of LoopContinues: the comparison is <= instead of <.
LoopContinues_inclusive(next, ranked) == Len(next) <= Len(ranked)

\* while next_generation.len() < gen_size, gen_size being the pool's length.
LoopContinues(next, ranked) == Len(next) < Len(ranked)

(***************************************************************************)
(* Run::run.                                                               *)
(***************************************************************************)
Init ==
    /\ generation \in SeqsUpTo(GenomeValues, MaxGen)
    /\ training_data \in TrainingSets
    /\ elitism \in 0..MaxElitism
    /\ tournament_size \in TournamentSizes
    /\ pc = "rank"
    /\ ranked_generation = <<>>
    /\ next_generation = <<>>
    /\ left = None
    /\ right = None
    /\ child = NoChild
    /\ elite = <<>>
    /\ slots = <<>>
    /\ result = <<>>
    /\ SelectIdle
    /\ BuilderIdle
    /\ CalcIdle
    /\ CrossoverIdle
    /\ MutateIdle
    /\ BreedIdle
    /\ FarmIdle

\* What tournament.select(generation) can return in the breed loop.
Parents == SelectedRecords(tournament_size, ranked_generation)

\* let ranked_generation = self.rank_generation(generation);
RankGeneration ==
    /\ pc = "rank"
    /\ ranked_generation' = rank_generation(training_data, generation)
    /\ pc' = "breed"
    /\ UNCHANGED <<generation, training_data, elitism, tournament_size,
                   next_generation, left, right, child, elite, slots, result>>
    /\ UNCHANGED <<selectVars, builderVars, calcVars, crossoverVars, mutateVars, breedVars, farmVars>>

\* An iteration of the loop of new_generation in which a select gave None.
BreedSkip ==
    /\ pc = "breed"
    /\ LoopContinues(next_generation, ranked_generation)
    /\ \E l \in Parents, r \in Parents :
          /\ ~l.some \/ ~r.some
          /\ left' = l
          /\ right' = r
    /\ child' = [state |-> "skipped", genome |-> NaN]
    /\ UNCHANGED <<generation, training_data, elitism, tournament_size, pc,
                   ranked_generation, next_generation, elite, slots, result>>
    /\ UNCHANGED <<selectVars, builderVars, calcVars, crossoverVars, mutateVars, breedVars, farmVars>>

\* An iteration whose child passes the fitness check and is pushed.
BreedAppend ==
    /\ pc = "breed"
    /\ LoopContinues(next_generation, ranked_generation)
    /\ \E l \in Parents, r \in Parents, shift \in Breeder_shifts(breeder) :
          /\ l.some /\ r.some
          /\ LET c == breed(l.rec.predict, r.rec.predict, shift)
                 fitness == check(training_data, c)
             IN  /\ fitness.ok
                 /\ next_generation' = Append(next_generation, CompareRecord(fitness.val, c))
                 /\ child' = [state |-> "appended", genome |-> c]
          /\ left' = l
          /\ right' = r
    /\ UNCHANGED <<generation, training_data, elitism, tournament_size, pc,
                   ranked_generation, elite, slots, result>>
    /\ UNCHANGED <<selectVars, builderVars, calcVars, crossoverVars, mutateVars, breedVars, farmVars>>

\* An iteration whose child fails the fitness check and is dropped.
BreedDiscard ==
    /\ pc = "breed"
    /\ LoopContinues(next_generation, ranked_generation)
    /\ \E l \in Parents, r \in Parents, shift \in Breeder_shifts(breeder) :
          /\ l.some /\ r.some
          /\ LET c == breed(l.rec.predict, r.rec.predict, shift)
                 fitness == check(training_data, c)
             IN  /\ ~fitness.ok
                 /\ child' = [state |-> "discarded", genome |-> c]
          /\ left' = l
          /\ right' = r
    /\ UNCHANGED <<generation, training_data, elitism, tournament_size, pc,
                   ranked_generation, next_generation, elite, slots, result>>
    /\ UNCHANGED <<selectVars, builderVars, calcVars, crossoverVars, mutateVars, breedVars, farmVars>>

\* The loop of new_generation is over (its locals left, right and child go
\* out of scope): unrank the offspring, take the elite.
PartitionElite ==
    /\ pc = "breed"
    /\ ~LoopContinues(next_generation, ranked_generation)
    /\ result' = unrank_generation(next_generation)
    /\ elite' = partition_elite(elitism, ranked_generation)
    /\ left' = None
    /\ right' = None
    /\ child' = NoChild
    /\ pc' = "inject"
    /\ UNCHANGED <<generation, training_data, elitism, tournament_size,
                   ranked_generation, next_generation, slots>>
    /\ UNCHANGED <<selectVars, builderVars, calcVars, crossoverVars, mutateVars, breedVars, farmVars>>

\* An iteration of the loop of inject::genomes; gen_range panics on 0..0.
InjectGenome ==
    /\ pc = "inject"
    /\ elite # <<>>
    /\ IF Len(result) = 0
       THEN /\ pc' = "panic"
            /\ UNCHANGED <<elite, slots, result>>
       ELSE \E generation_index \in 1..Len(result) :
            /\ result' = inject_one(result, Head(elite), generation_index)
            /\ slots' = Append(slots, generation_index)
            /\ elite' = Tail(elite)
            /\ pc' = pc
    /\ UNCHANGED <<generation, training_data, elitism, tournament_size,
                   ranked_generation, next_generation, left, right, child>>
    /\ UNCHANGED <<selectVars, builderVars, calcVars, crossoverVars, mutateVars, breedVars, farmVars>>

\* inject::genomes returns, and with it Run::run.
Return ==
    /\ pc = "inject"
    /\ elite = <<>>
    /\ pc' = "done"
    /\ UNCHANGED <<generation, training_data, elitism, tournament_size,
                   ranked_generation, next_generation, left, right, child,
                   elite, slots, result>>
    /\ UNCHANGED <<selectVars, builderVars, calcVars, crossoverVars, mutateVars, breedVars, farmVars>>

Next ==
    \/ RankGeneration
    \/ BreedSkip
    \/ BreedAppend
    \/ BreedDiscard
    \/ PartitionElite
    \/ InjectGenome
    \/ Return

Spec == Init /\ [][Next]_vars

(***************************************************************************)
(* Tournament::select on its own: any slice of records, any size.          *)
(***************************************************************************)
CandidateRecords == {CompareRecord(Num(f), Num(f)) : f \in 0..MaxFit}

SelectInit ==
    /\ candidates \in SeqsUpTo(CandidateRecords, MaxCand)
    /\ tournament_size \in 0..MaxTournament
    /\ sample = <<>>
    /\ winner = 0
    /\ pc = "select"
    /\ generation = <<>>
    /\ training_data = <<>>
    /\ elitism = 0
    /\ ranked_generation = <<>>
    /\ next_generation = <<>>
    /\ left = None
    /\ right = None
    /\ child = NoChild
    /\ elite = <<>>
    /\ slots = <<>>
    /\ result = <<>>
    /\ BuilderIdle
    /\ CalcIdle
    /\ CrossoverIdle
    /\ MutateIdle
    /\ BreedIdle
    /\ FarmIdle

\* One call of Tournament::select(candidates).
TournamentSelect ==
    /\ pc \in {"select", "selected"}
    /\ \E shuffle \in Shuffles(Len(candidates)) :
          /\ sample' = tournament_iter(tournament_size, candidates, shuffle)
          /\ winner' = select(tournament_size, candidates, shuffle)
    /\ pc' = "selected"
    /\ UNCHANGED <<generation, training_data, elitism, tournament_size,
                   ranked_generation, next_generation, left, right, child,
                   elite, slots, result, candidates>>
    /\ UNCHANGED <<builderVars, calcVars, crossoverVars, mutateVars, breedVars, farmVars>>

SelectNext == TournamentSelect

SpecSelect == SelectInit /\ [][SelectNext]_vars

(***************************************************************************)
(* The run::Builder: its setters and build.                                *)
(***************************************************************************)
\* The run-time variables of Run::run, at rest.
RunIdle ==
    /\ generation = <<>>
    /\ ranked_generation = <<>>
    /\ next_generation = <<>>
    /\ left = None
    /\ right = None
    /\ child = NoChild
    /\ elite = <<>>
    /\ slots = <<>>
    /\ result = <<>>

BreedManager_new(b) == [breeder |-> b]

\* The breeders handed to the builder: the mean breeder of the tests.
Breeders == {"Breeder"}

\* The values handed to Builder::tournament_size, and its default.
BuilderTournamentSizes == (0..MaxTournament) \cup {Builder_default.tournament_size}

BuildOk(run) == [ok |-> TRUE, run |-> run, err |-> "none"]

BuildErr(e) == [ok |-> FALSE, run |-> "none", err |-> e]

\* Mutation of build: the fitness calculator is looked at first.
build_fitness_calc_first(b) ==
    IF ~b.fitness_calc.some THEN BuildErr("FitnessCalcNotSet")
    ELSE IF ~b.breeder.some THEN BuildErr("BreederNotSet")
    ELSE BuildOk([breeder |-> b.breeder.val, fitness_calc |-> b.fitness_calc.val,
                  elitism |-> b.elitism, tournament_size |-> b.tournament_size])

\* Builder::build: the fields are evaluated in order, `?` returns the first Err.
build(b) ==
    IF ~b.breeder.some THEN BuildErr("BreederNotSet")
    ELSE IF ~b.fitness_calc.some THEN BuildErr("FitnessCalcNotSet")
    ELSE BuildOk([breeder |-> b.breeder.val, fitness_calc |-> b.fitness_calc.val,
                  elitism |-> b.elitism, tournament_size |-> b.tournament_size])

BuilderFrame ==
    /\ UNCHANGED <<generation, training_data, elitism, tournament_size,
                   ranked_generation, next_generation, left, right, child,
                   elite, slots, result>>
    /\ UNCHANGED <<selectVars, calcVars, crossoverVars, mutateVars, breedVars, farmVars>>

\* Run::builder().
BuilderInit ==
    /\ pc = "builder"
    /\ BuilderIdle
    /\ training_data = <<>>
    /\ elitism = 0
    /\ tournament_size = 0
    /\ RunIdle
    /\ SelectIdle
    /\ CalcIdle
    /\ CrossoverIdle
    /\ MutateIdle
    /\ BreedIdle
    /\ FarmIdle

Builder_elitism ==
    /\ pc = "builder"
    /\ \E e \in 0..MaxElitism : builder' = [builder EXCEPT !.elitism = e]
    /\ UNCHANGED <<pc, built>>
    /\ BuilderFrame

Builder_tournament_size ==
    /\ pc = "builder"
    /\ \E t \in BuilderTournamentSizes : builder' = [builder EXCEPT !.tournament_size = t]
    /\ UNCHANGED <<pc, built>>
    /\ BuilderFrame

Builder_breeder ==
    /\ pc = "builder"
    /\ \E b \in Breeders : builder' = [builder EXCEPT !.breeder = OptSome(BreedManager_new(b))]
    /\ UNCHANGED <<pc, built>>
    /\ BuilderFrame

Builder_breeder_manager ==
    /\ pc = "builder"
    /\ \E b \in Breeders : builder' = [builder EXCEPT !.breeder = OptSome([breeder |-> b])]
    /\ UNCHANGED <<pc, built>>
    /\ BuilderFrame

Builder_fitness_calc ==
    /\ pc = "builder"
    /\ \E t \in TrainingSets :
          builder' = [builder EXCEPT !.fitness_calc = OptSome([training_data |-> t])]
    /\ UNCHANGED <<pc, built>>
    /\ BuilderFrame

\* build consumes the builder.
Builder_build ==
    /\ pc = "builder"
    /\ built' = build(builder)
    /\ pc' = "built"
    /\ UNCHANGED builder
    /\ BuilderFrame

BuilderNext ==
    \/ Builder_elitism
    \/ Builder_tournament_size
    \/ Builder_breeder
    \/ Builder_breeder_manager
    \/ Builder_fitness_calc
    \/ Builder_build

SpecBuilder == BuilderInit /\ [][BuilderNext]_vars

(***************************************************************************)
(* FitnessCalc::check on its own: any training data, any predictor.        *)
(***************************************************************************)
\* The training records of the crate's tests and examples, the record of
\* the runs above, and a record that expects no output.
CheckRecords ==
    { TrainingRecord(<<Num(0), Num(0)>>, <<Num(0)>>),
      TrainingRecord(<<Num(1)>>, <<Num(0)>>),
      TrainingRecord(<<Num(1), Num(2), Num(3), Num(4)>>, <<Num(1), Num(2), Num(3), Num(4)>>),
      TrainingRecord(<<Num(1)>>, <<>>) }

\* Predictor(v) of the tests for some values v, TestPredict, and a
\* predictor that returns nothing.
Predictors == GenomeValues \cup {ConstPredictor(<<Num(0)>>), ConstPredictor(<<>>)}

CheckInit ==
    /\ pc = "check"
    /\ training_data \in SeqsUpTo(CheckRecords, MaxTraining)
    /\ predictor \in Predictors
    /\ check_result = NotChecked
    /\ entities = <<>>
    /\ comparator = "Comparator"
    /\ best = NoBest
    /\ compare_calls = 0
    /\ elitism = 0
    /\ tournament_size = 0
    /\ RunIdle
    /\ SelectIdle
    /\ BuilderIdle
    /\ CrossoverIdle
    /\ MutateIdle
    /\ BreedIdle
    /\ FarmIdle

\* One call of FitnessCalc::check(&predictor).
Check ==
    /\ pc = "check"
    /\ check_result' = check(training_data, predictor)
    /\ pc' = "checked"
    /\ UNCHANGED <<generation, training_data, elitism, tournament_size,
                   ranked_generation, next_generation, left, right, child,
                   elite, slots, result>>
    /\ UNCHANGED <<predictor, entities, comparator, best, compare_calls>>
    /\ UNCHANGED <<selectVars, builderVars, crossoverVars, mutateVars, breedVars, farmVars>>

CheckNext == Check

SpecCheck == CheckInit /\ [][CheckNext]_vars

(***************************************************************************)
(* FitnessCalc::best_entity.  The result refers to a candidate by its      *)
(* index in the slice, 0 standing for None.                                *)
(***************************************************************************)
\* The Compare implementations handed to best_entity: by fitness
\* (partial_cmp), BadComparator (always Equal), and by descending fitness.
Comparators == {"Comparator", "BadComparator", "Descending"}

compare(c, l, r) ==
    IF c = "BadComparator" THEN "Equal"
    ELSE IF c = "Descending" THEN F_partial_cmp(r.fitness, l.fitness)
    ELSE F_partial_cmp(l.fitness, r.fitness)

\* Mutation of MinByStep: the later element wins unless the held one is Less.
MinByStep_unless_less(c, records, x, y) ==
    IF compare(c, records[x], records[y]) = "Less" THEN x ELSE y

\* Iterator::min_by folds with: Greater => y, otherwise x.
MinByStep(c, records, x, y) ==
    IF compare(c, records[x], records[y]) = "Greater" THEN y ELSE x

RECURSIVE MinByFold(_, _, _, _)
MinByFold(c, records, x, y) ==
    IF y > Len(records) THEN x
    ELSE MinByFold(c, records, MinByStep(c, records, x, y), y + 1)

min_by(c, records) == IF records = <<>> THEN 0 ELSE MinByFold(c, records, 1, 2)

\* collect::<Result<Vec<_>>>: the index of the first Err, 0 when there is none.
RECURSIVE FirstErr(_, _)
FirstErr(results, i) ==
    IF i > Len(results) THEN 0
    ELSE IF ~results[i].ok THEN i
    ELSE FirstErr(results, i + 1)

BestOk(idx) == [ok |-> TRUE, idx |-> idx, err |-> "none"]

BestErr(e) == [ok |-> FALSE, idx |-> 0, err |-> e]

\* Mutation of best_entity: the candidates that fail are left out.
best_entity_skip_errors(training, ents, c) ==
    LET results == [i \in 1..Len(ents) |-> check(training, ents[i])]
        kept == {i \in 1..Len(ents) : results[i].ok}
        records == [i \in 1..Len(ents) |->
                      CompareRecord(IF results[i].ok THEN results[i].val ELSE Num(MaxFit * MaxFit + 1),
                                    ents[i])]
        idx == min_by(c, records)
    IN  IF kept = {} THEN BestOk(0) ELSE BestOk(idx)

best_entity(training, ents, c) ==
    LET results == [i \in 1..Len(ents) |-> check(training, ents[i])]
        failed == FirstErr(results, 1)
        vector == [i \in 1..Len(ents) |-> CompareRecord(results[i].val, ents[i])]
    IN  IF failed # 0 THEN BestErr(results[failed].err)
        ELSE BestOk(min_by(c, vector))

\* The calls of compare.compare made by best_entity: none when the collect
\* returned early, one per fold step of min_by otherwise.
best_entity_compare_calls(training, ents) ==
    LET results == [i \in 1..Len(ents) |-> check(training, ents[i])]
    IN  IF FirstErr(results, 1) # 0 \/ ents = <<>> THEN 0 ELSE Len(ents) - 1

\* Predictor(v) of the tests; 1 and -1 have the same fitness.
BestEntities == GenomeValues \cup {Num(-1)}

\* The training record of the tests (every number has fitness 0) and the
\* one that tells the candidates apart.
BestTrainingSets ==
    { <<TrainingRecord(<<Num(0), Num(0)>>, <<Num(0)>>)>>,
      <<TrainingRecord(<<Num(1)>>, <<Num(0)>>)>> }

BestInit ==
    /\ pc = "best_entity"
    /\ training_data \in BestTrainingSets
    /\ entities \in SeqsUpTo(BestEntities, MaxEntities)
    /\ comparator \in Comparators
    /\ best = NoBest
    /\ compare_calls = 0
    /\ predictor = Num(0)
    /\ check_result = NotChecked
    /\ elitism = 0
    /\ tournament_size = 0
    /\ RunIdle
    /\ SelectIdle
    /\ BuilderIdle
    /\ CrossoverIdle
    /\ MutateIdle
    /\ BreedIdle
    /\ FarmIdle

\* One call of FitnessCalc::best_entity(&entities, &comparator).
BestEntity ==
    /\ pc = "best_entity"
    /\ best' = best_entity(training_data, entities, comparator)
    /\ compare_calls' = best_entity_compare_calls(training_data, entities)
    /\ pc' = "best_returned"
    /\ UNCHANGED <<generation, training_data, elitism, tournament_size,
                   ranked_generation, next_generation, left, right, child,
                   elite, slots, result>>
    /\ UNCHANGED <<predictor, check_result, entities, comparator>>
    /\ UNCHANGED <<selectVars, builderVars, crossoverVars, mutateVars, breedVars, farmVars>>

BestNext == BestEntity

SpecBest == BestInit /\ [][BestNext]_vars

(***************************************************************************)
(* Crossover of the farm crate: f64 and Vec<f64>.  A call of the random    *)
(* number generator is a choice among samples of its range.  f64::EPSILON  *)
(* is 2^-52; the model scales it to 2^-EpsilonBits, the comparisons made   *)
(* with it are those of the code.                                          *)
(***************************************************************************)
EPSILON == Fin(1, 2 ^ EpsilonBits)

F_lt(a, b) == F_partial_cmp(a, b) = "Less"

\* f64::min and f64::max: the other operand when one is NaN.
F_min(a, b) == IF is_nan(a) THEN b ELSE IF is_nan(b) THEN a ELSE IF F_lt(b, a) THEN b ELSE a

F_max(a, b) == IF is_nan(a) THEN b ELSE IF is_nan(b) THEN a ELSE IF F_lt(a, b) THEN b ELSE a

F_abs(x) == IF x.k = "fin" THEN Fin(Abs(x.n), x.d) ELSE IF x.k = "inf" THEN Inf(1) ELSE NaN

\* thread_rng().gen_range(low..=high): both ends and the middle.
gen_range_inclusive(low, high) ==
    {low, F_div(F_add(low, high), Num(2)), high}

\* Mutation of f64_crossover: both operands are drawn afresh, whatever they are.
f64_crossover_redrawn(self, other) ==
    UNION { IF F_lt(F_abs(F_sub(F_max(a, b), F_min(a, b))), EPSILON)
            THEN {F_min(a, b)}
            ELSE gen_range_inclusive(F_min(a, b), F_max(a, b)) :
            a \in gen_range_inclusive(Num(-1), Num(1)),
            b \in gen_range_inclusive(Num(-1), Num(1)) }

\* impl Crossover for f64: everything a call can return.
f64_crossover(self, other) ==
    LET as == IF is_nan(self) \/ is_infinite(self)
              THEN gen_range_inclusive(Num(-1), Num(1)) ELSE {self}
        bs == IF is_nan(other) \/ is_infinite(other)
              THEN gen_range_inclusive(Num(-1), Num(1)) ELSE {other}
    IN  UNION { IF F_lt(F_abs(F_sub(F_max(a, b), F_min(a, b))), EPSILON)
                THEN {F_min(a, b)}
                ELSE gen_range_inclusive(F_min(a, b), F_max(a, b)) :
                a \in as, b \in bs }

\* zip(self, other).map(crossover): everything the first n pairs can give.
RECURSIVE ZipCrossover(_, _, _)
ZipCrossover(self, other, n) ==
    IF n = 0 THEN {<<>>}
    ELSE {Append(z, c) : z \in ZipCrossover(self, other, n - 1),
                         c \in f64_crossover(self[n], other[n])}

\* Mutation of Vec_crossover: the rest is always taken from self.
Vec_crossover_rest_of_self(self, other) ==
    LET min_size == Min(Len(self), Len(other))
        rest == SubSeq(self, min_size + 1, Len(self))
    IN  {z \o rest : z \in ZipCrossover(self, other, min_size)}

\* impl Crossover for Vec<T>, T being f64.
Vec_crossover(self, other) ==
    LET self_len == Len(self)
        other_len == Len(other)
        min_size == Min(self_len, other_len)
        rest == IF self_len < other_len
                THEN SubSeq(other, min_size + 1, other_len)
                ELSE SubSeq(self, min_size + 1, self_len)
    IN  {z \o rest : z \in ZipCrossover(self, other, min_size)}

\* Genes: not numbers, numbers closer to each other than EPSILON, and others.
GeneValues ==
    {NaN, Inf(1), Inf(-1), Num(-1), Num(0), Fin(1, 2 ^ (EpsilonBits + 1)), Num(1), Num(2)}

VecGeneValues == {NaN, Num(0), Num(2)}

CrossoverInit ==
    /\ \/ /\ pc = "crossover_f64"
          /\ gene_left \in GeneValues
          /\ gene_right \in GeneValues
          /\ vec_left = <<>>
          /\ vec_right = <<>>
       \/ /\ pc = "crossover_vec"
          /\ gene_left = Num(0)
          /\ gene_right = Num(0)
          /\ vec_left \in SeqsUpTo(VecGeneValues, MaxGenes)
          /\ vec_right \in SeqsUpTo(VecGeneValues, MaxGenes)
    /\ gene_child = Num(0)
    /\ vec_child = <<>>
    /\ training_data = <<>>
    /\ elitism = 0
    /\ tournament_size = 0
    /\ RunIdle
    /\ SelectIdle
    /\ BuilderIdle
    /\ CalcIdle
    /\ MutateIdle
    /\ BreedIdle
    /\ FarmIdle

CrossoverFrame ==
    /\ UNCHANGED <<generation, training_data, elitism, tournament_size,
                   ranked_generation, next_generation, left, right, child,
                   elite, slots, result>>
    /\ UNCHANGED <<gene_left, gene_right, vec_left, vec_right>>
    /\ UNCHANGED <<selectVars, builderVars, calcVars, mutateVars, breedVars, farmVars>>

\* One call of gene_left.crossover(&gene_right).
CrossoverF64 ==
    /\ pc = "crossover_f64"
    /\ gene_child' \in f64_crossover(gene_left, gene_right)
    /\ pc' = "crossed_f64"
    /\ UNCHANGED vec_child
    /\ CrossoverFrame

\* One call of vec_left.crossover(&vec_right).
CrossoverVec ==
    /\ pc = "crossover_vec"
    /\ vec_child' \in Vec_crossover(vec_left, vec_right)
    /\ pc' = "crossed_vec"
    /\ UNCHANGED gene_child
    /\ CrossoverFrame

CrossoverNext ==
    \/ CrossoverF64
    \/ CrossoverVec

SpecCrossover == CrossoverInit /\ [][CrossoverNext]_vars

(***************************************************************************)
(* Mutation of the farm crate: the Mutator, the Target implementations for *)
(* f64, the activation gene and Vec<f64>, VecMutation, and the mutate of   *)
(* the neuron genome.  Every call of the random number generator is a      *)
(* choice among samples of its range.                                      *)
(***************************************************************************)
\* gen_range(0.0..1.0) and random::<f64>().
UnitSamples == {Num(0), Fin(1, 2)}

\* gen_range(-1.0..1.0).
SignedSamples == {Num(-1), Num(0), Fin(1, 2)}

\* Mutation of check_mutate: the draw is compared with <= instead of <.
check_mutate_inclusive(m) == {~F_lt(m.mutation_rate, u) : u \in UnitSamples}

\* Mutator::check_mutate: the values a call can return.
check_mutate(m) == {F_lt(u, m.mutation_rate) : u \in UnitSamples}

\* Mutator::mutation_size: the values a call can return.
mutation_size(m) == {F_mul(m.mutation_size, s) : s \in SignedSamples}

\* mutator.mutation_size() > 0.0 && mutator.check_mutate().
MutationGate(m) ==
    {F_lt(Num(0), z) /\ c : z \in mutation_size(m), c \in check_mutate(m)}

\* Mutation of StructureGate: the transposition is gated like the values.
StructureGate_sized(m) == MutationGate(m)

\* The gate of the transposition in neuron::Genome::mutate.
StructureGate(m) == check_mutate(m)

\* impl Target for f64: mutation_size is called again for the amount.
f64_mutate(x, m) ==
    (IF FALSE \in MutationGate(m) THEN {x} ELSE {})
    \cup (IF TRUE \in MutationGate(m)
          THEN {F_add(x, F_mul(r, z)) : r \in UnitSamples, z \in mutation_size(m)}
          ELSE {})

ActivatorGenes == {"Linear", "Sigmoid"}

\* impl Target for activator::Gene, and for activator::Genome.
Gene_mutate(g, m) ==
    (IF FALSE \in MutationGate(m) THEN {g} ELSE {})
    \cup (IF TRUE \in MutationGate(m) THEN ActivatorGenes ELSE {})

Activator_mutate(a, m) == {ActivatorGenome(g) : g \in Gene_mutate(a.activator, m)}

\* impl Target for Vec<T>, T being f64: every member is mutated.
RECURSIVE Vec_mutate(_, _)
Vec_mutate(v, m) ==
    IF v = <<>> THEN {<<>>}
    ELSE {<<x>> \o rest : x \in f64_mutate(Head(v), m), rest \in Vec_mutate(Tail(v), m)}

VecMutation(kind, i, j, element) == [kind |-> kind, i |-> i, j |-> j, element |-> element]

\* VecMutation::new: the kind, the indexes in 0..len, the element of the factory.
VecMutation_new(len, elements) ==
    {VecMutation("Insert", i, 0, e) : i \in 0..(len - 1), e \in elements}
    \cup {VecMutation("Replace", i, 0, e) : i \in 0..(len - 1), e \in elements}
    \cup {VecMutation("Remove", i, 0, NaN) : i \in 0..(len - 1)}
    \cup {VecMutation("Swap", i, j, NaN) : i \in 0..(len - 1), j \in 0..(len - 1)}
    \cup {VecMutation("Reverse", i, j, NaN) : i \in 0..(len - 1), j \in 0..(len - 1)}

\* Mutation of VecMutation_apply: Reverse leaves the element at max out of
\* the slice (min..max instead of min..=max).
VecMutation_apply_exclusive(mu, vec) ==
    IF mu.kind = "Insert"
    THEN SubSeq(vec, 1, mu.i) \o <<mu.element>> \o SubSeq(vec, mu.i + 1, Len(vec))
    ELSE IF mu.kind = "Replace" THEN [vec EXCEPT ![mu.i + 1] = mu.element]
    ELSE IF mu.kind = "Remove"
    THEN SubSeq(vec, 1, mu.i) \o SubSeq(vec, mu.i + 2, Len(vec))
    ELSE IF mu.kind = "Swap"
    THEN [k \in 1..Len(vec) |->
            IF k = mu.i + 1 THEN vec[mu.j + 1]
            ELSE IF k = mu.j + 1 THEN vec[mu.i + 1]
            ELSE vec[k]]
    ELSE LET min == Min(mu.i, mu.j)
             max == IF mu.i < mu.j THEN mu.j ELSE mu.i
         IN  [k \in 1..Len(vec) |->
                IF min + 1 <= k /\ k <= max THEN vec[min + max + 1 - k] ELSE vec[k]]

\* VecMutation::apply; the indexes of the mutation count from 0.
VecMutation_apply(mu, vec) ==
    IF mu.kind = "Insert"
    THEN SubSeq(vec, 1, mu.i) \o <<mu.element>> \o SubSeq(vec, mu.i + 1, Len(vec))
    ELSE IF mu.kind = "Replace" THEN [vec EXCEPT ![mu.i + 1] = mu.element]
    ELSE IF mu.kind = "Remove"
    THEN SubSeq(vec, 1, mu.i) \o SubSeq(vec, mu.i + 2, Len(vec))
    ELSE IF mu.kind = "Swap"
    THEN [k \in 1..Len(vec) |->
            IF k = mu.i + 1 THEN vec[mu.j + 1]
            ELSE IF k = mu.j + 1 THEN vec[mu.i + 1]
            ELSE vec[k]]
    ELSE LET min == Min(mu.i, mu.j)
             max == IF mu.i < mu.j THEN mu.j ELSE mu.i
         IN  [k \in 1..Len(vec) |->
                IF min + 1 <= k /\ k <= max + 1 THEN vec[min + max + 2 - k] ELSE vec[k]]

\* The fold of mutate_weights over the weights that are numbers.
RECURSIVE FoldMin(_)
FoldMin(v) ==
    IF Len(v) = 1 THEN v[1] ELSE F_min(v[Len(v)], FoldMin(SubSeq(v, 1, Len(v) - 1)))

RECURSIVE FoldMax(_)
FoldMax(v) ==
    IF Len(v) = 1 THEN v[1] ELSE F_max(v[Len(v)], FoldMax(SubSeq(v, 1, Len(v) - 1)))

Unmutated(weights) == [weights |-> weights, vec_mutation |-> NoVecMutation]

\* Mutation of mutate_weights: the generated mutation is applied whatever it is.
mutate_weights_apply_all(weights) ==
    LET numbers == SelectSeq(weights, LAMBDA n : is_finite(n) /\ ~is_nan(n))
    IN  IF numbers = <<>> THEN {Unmutated(weights)}
        ELSE IF ~F_lt(FoldMin(numbers), FoldMax(numbers)) THEN {Unmutated(weights)}
        ELSE {[weights |-> VecMutation_apply(mu, weights), vec_mutation |-> mu] :
                mu \in VecMutation_new(Len(weights),
                                       gen_range_inclusive(FoldMin(numbers), FoldMax(numbers)))}

\* Mutation of mutate_weights: the comparison is min <= max instead of <.
mutate_weights_inclusive(weights) ==
    LET numbers == SelectSeq(weights, LAMBDA n : is_finite(n) /\ ~is_nan(n))
    IN  IF numbers = <<>> THEN {Unmutated(weights)}
        ELSE IF F_lt(FoldMax(numbers), FoldMin(numbers)) THEN {Unmutated(weights)}
        ELSE {[weights |-> IF mu.kind \in {"Swap", "Replace", "Reverse"}
                           THEN VecMutation_apply(mu, weights) ELSE weights,
               vec_mutation |-> mu] :
                mu \in VecMutation_new(Len(weights),
                                       gen_range_inclusive(FoldMin(numbers), FoldMax(numbers)))}

\* mutate_weights: the weights it can leave, with the mutation it generated.
mutate_weights(weights) ==
    LET numbers == SelectSeq(weights, LAMBDA n : is_finite(n) /\ ~is_nan(n))
    IN  IF numbers = <<>> THEN {Unmutated(weights)}
        ELSE IF ~F_lt(FoldMin(numbers), FoldMax(numbers)) THEN {Unmutated(weights)}
        ELSE {[weights |-> IF mu.kind \in {"Swap", "Replace", "Reverse"}
                           THEN VecMutation_apply(mu, weights) ELSE weights,
               vec_mutation |-> mu] :
                mu \in VecMutation_new(Len(weights),
                                       gen_range_inclusive(FoldMin(numbers), FoldMax(numbers)))}

WeightValues == {NaN, Num(0), Num(2)}

\* Mutators: a rate of 0 never mutates, a size of 0 closes the value gate.
Mutators ==
    {Mutator(Num(0), Num(1)), Mutator(Fin(1, 2), Num(0)), Mutator(Fin(1, 2), Num(1))}

MutateInit ==
    /\ pc = "mutate"
    /\ \E w \in SeqsUpTo(WeightValues, MaxGenes) :
          neuron = NeuronGenome(ActivatorGenome("Linear"), w, Num(0))
    /\ mutator \in Mutators
    /\ mutated = neuron
    /\ vec_mutation = NoVecMutation
    /\ training_data = <<>>
    /\ elitism = 0
    /\ tournament_size = 0
    /\ RunIdle
    /\ SelectIdle
    /\ BuilderIdle
    /\ CalcIdle
    /\ CrossoverIdle
    /\ BreedIdle
    /\ FarmIdle

MutateFrame ==
    /\ UNCHANGED <<generation, training_data, elitism, tournament_size,
                   ranked_generation, next_generation, left, right, child,
                   elite, slots, result>>
    /\ UNCHANGED <<neuron, mutator>>
    /\ UNCHANGED <<selectVars, builderVars, calcVars, crossoverVars, breedVars, farmVars>>

\* neuron::Genome::mutate, the mutation of the activator, weights and bias.
MutateGenes ==
    /\ pc = "mutate"
    /\ \E a \in Activator_mutate(mutated.activator, mutator),
          w \in Vec_mutate(mutated.weights, mutator),
          b \in f64_mutate(mutated.bias, mutator) :
          mutated' = NeuronGenome(a, w, b)
    /\ pc' = "mutate_weights"
    /\ UNCHANGED vec_mutation
    /\ MutateFrame

\* neuron::Genome::mutate, the transposition: mutate_weights when
\* check_mutate says so; then mutate returns.
MutateStructure ==
    /\ pc = "mutate_weights"
    /\ \E c \in StructureGate(mutator) :
          IF c
          THEN \E r \in mutate_weights(mutated.weights) :
                  /\ mutated' = [mutated EXCEPT !.weights = r.weights]
                  /\ vec_mutation' = r.vec_mutation
          ELSE UNCHANGED <<mutated, vec_mutation>>
    /\ pc' = "mutated"
    /\ MutateFrame

MutateNext ==
    \/ MutateGenes
    \/ MutateStructure

SpecMutate == MutateInit /\ [][MutateNext]_vars

(***************************************************************************)
(* Run::run on generations whose genomes all pass the evaluation and some  *)
(* of which have the same fitness without being the same genome.           *)
(***************************************************************************)
\* Under the training record (input [1], output [0]) the fitness of a
\* genome is its value squared: -1 and 1 tie.
EliteGenomes == {Num(-1), Num(1), Num(2)}

EliteInit ==
    /\ generation \in SeqsUpTo(EliteGenomes, MaxGen)
    /\ training_data = <<TrainingRecord(<<Num(1)>>, <<Num(0)>>)>>
    /\ elitism \in 0..MaxElitism
    /\ tournament_size \in {0, MaxGen}
    /\ pc = "rank"
    /\ ranked_generation = <<>>
    /\ next_generation = <<>>
    /\ left = None
    /\ right = None
    /\ child = NoChild
    /\ elite = <<>>
    /\ slots = <<>>
    /\ result = <<>>
    /\ SelectIdle
    /\ BuilderIdle
    /\ CalcIdle
    /\ CrossoverIdle
    /\ MutateIdle
    /\ BreedIdle
    /\ FarmIdle

SpecElite == EliteInit /\ [][Next]_vars

(***************************************************************************)
(* Run::run on the generation of tests::test_run (genomes 1, 2, 3, one     *)
(* training record of input [0, 0] and output [0], elitism 1), with the    *)
(* tournament size and the breeder of the test and their neighbours.       *)
(***************************************************************************)
ScenarioGeneration == <<Num(1), Num(2), Num(3)>>

ScenarioTraining == <<TrainingRecord(<<Num(0), Num(0)>>, <<Num(0)>>)>>

ScenarioInit ==
    /\ generation = ScenarioGeneration
    /\ training_data = ScenarioTraining
    /\ elitism = 1
    /\ tournament_size \in {0, 2}
    /\ breeder \in BreederKinds
    /\ pc = "rank"
    /\ ranked_generation = <<>>
    /\ next_generation = <<>>
    /\ left = None
    /\ right = None
    /\ child = NoChild
    /\ elite = <<>>
    /\ slots = <<>>
    /\ result = <<>>
    /\ breed_left = Num(0)
    /\ breed_right = Num(0)
    /\ offspring = Num(0)
    /\ breed_calls = <<>>
    /\ SelectIdle
    /\ BuilderIdle
    /\ CalcIdle
    /\ CrossoverIdle
    /\ MutateIdle
    /\ FarmIdle

SpecScenario == ScenarioInit /\ [][Next]_vars

(***************************************************************************)
(* Manager::breed on its own: any two genomes, either breeder.             *)
(***************************************************************************)
BreedGenomes == {NaN, Inf(1), Num(-1), Num(1), Num(2)}

BreedInit ==
    /\ pc = "breed_call"
    /\ breeder \in BreederKinds
    /\ breed_left \in BreedGenomes
    /\ breed_right \in BreedGenomes
    /\ offspring = Num(0)
    /\ breed_calls = <<>>
    /\ training_data = <<>>
    /\ elitism = 0
    /\ tournament_size = 0
    /\ RunIdle
    /\ SelectIdle
    /\ BuilderIdle
    /\ CalcIdle
    /\ CrossoverIdle
    /\ MutateIdle
    /\ FarmIdle

\* One call of manager.breed(&breed_left, &breed_right).
ManagerBreed ==
    /\ pc = "breed_call"
    /\ \E shift \in Breeder_shifts(breeder) :
          LET r == Manager_breed(breed_left, breed_right, shift)
          IN  /\ offspring' = r.offspring
              /\ breed_calls' = r.calls
    /\ pc' = "bred"
    /\ UNCHANGED <<generation, training_data, elitism, tournament_size,
                   ranked_generation, next_generation, left, right, child,
                   elite, slots, result>>
    /\ UNCHANGED <<breeder, breed_left, breed_right>>
    /\ UNCHANGED <<selectVars, builderVars, calcVars, crossoverVars, mutateVars, farmVars>>

BreedNext == ManagerBreed

SpecBreed == BreedInit /\ [][BreedNext]_vars

(***************************************************************************)
(* Run::run under fairness: small pools, with and without a tournament     *)
(* that samples, with and without a mutation that makes offspring fail.    *)
(* Each step of run is taken when it can be; an iteration of the breed     *)
(* loop that appends an offspring is taken eventually when one is possible *)
(* at every iteration (the draws of the tournament and of the mutation are *)
(* independent from one iteration to the next).                            *)
(***************************************************************************)
LiveGenomes == {NaN, Num(1), Num(2)}

LiveInit ==
    /\ generation \in SeqsUpTo(LiveGenomes, MaxPool)
    /\ training_data = <<TrainingRecord(<<Num(1)>>, <<Num(0)>>)>>
    /\ elitism \in {0, 1}
    /\ tournament_size \in {0, 1}
    /\ breeder \in BreederKinds
    /\ pc = "rank"
    /\ ranked_generation = <<>>
    /\ next_generation = <<>>
    /\ left = None
    /\ right = None
    /\ child = NoChild
    /\ elite = <<>>
    /\ slots = <<>>
    /\ result = <<>>
    /\ breed_left = Num(0)
    /\ breed_right = Num(0)
    /\ offspring = Num(0)
    /\ breed_calls = <<>>
    /\ SelectIdle
    /\ BuilderIdle
    /\ CalcIdle
    /\ CrossoverIdle
    /\ MutateIdle
    /\ FarmIdle

\* An iteration of the breed loop can append an offspring.
CanAppend ==
    /\ pc = "breed"
    /\ LoopContinues(next_generation, ranked_generation)
    /\ \E l \in Parents, r \in Parents, shift \in Breeder_shifts(breeder) :
          /\ l.some /\ r.some
          /\ check(training_data, breed(l.rec.predict, r.rec.predict, shift)).ok

\* Weak fairness of every step of run; for RankGeneration and BreedAppend it
\* is written out, with the condition under which the step can be taken.
Fairness ==
    /\ []<>(pc # "rank") \/ []<><<RankGeneration>>_vars
    /\ []<>~CanAppend \/ []<><<BreedAppend>>_vars
    /\ WF_vars(PartitionElite)
    /\ WF_vars(InjectGenome)
    /\ WF_vars(Return)

SpecLive == LiveInit /\ [][Next]_vars /\ Fairness

(***************************************************************************)
(* VecMutation::apply on its own: any vector, any mutation whose indexes   *)
(* the vector has (an Insert may also name the index past the end).        *)
(***************************************************************************)
ApplyValues == {Num(0), Num(1), Num(2)}

ApplyElements == {Num(1), Num(9)}

\* The mutations apply accepts for a vector of this length.
ApplyMutations(len) ==
    VecMutation_new(len, ApplyElements)
    \cup {VecMutation("Insert", len, 0, e) : e \in ApplyElements}

ApplyInit ==
    /\ pc = "apply"
    /\ vec_target \in SeqsUpTo(ApplyValues, MaxVec)
    /\ vec_mutation \in ApplyMutations(Len(vec_target))
    /\ vec_applied = vec_target
    /\ target = Target("f64", Num(0))
    /\ target_mutated = Target("f64", Num(0))
    /\ population = <<>>
    /\ bred = 0
    /\ neuron = NoNeuron
    /\ mutator = Mutator(Num(0), Num(0))
    /\ mutated = NoNeuron
    /\ training_data = <<>>
    /\ elitism = 0
    /\ tournament_size = 0
    /\ RunIdle
    /\ SelectIdle
    /\ BuilderIdle
    /\ CalcIdle
    /\ CrossoverIdle
    /\ BreedIdle

\* One call of vec_mutation.apply(&mut vec).
Apply ==
    /\ pc = "apply"
    /\ vec_applied' = VecMutation_apply(vec_mutation, vec_target)
    /\ pc' = "applied"
    /\ UNCHANGED <<generation, training_data, elitism, tournament_size,
                   ranked_generation, next_generation, left, right, child,
                   elite, slots, result>>
    /\ UNCHANGED <<vec_target, target, target_mutated, population, bred>>
    /\ UNCHANGED <<selectVars, builderVars, calcVars, crossoverVars, mutateVars, breedVars>>

ApplyNext == Apply

SpecApply == ApplyInit /\ [][ApplyNext]_vars

(***************************************************************************)
(* Mutator::mutate on its own, for every kind of target: f64, bool, the    *)
(* activation gene, and the neuron, layer and network genomes.             *)
(***************************************************************************)
\* impl Target for bool.
Bool_mutate(b, m) ==
    (IF FALSE \in MutationGate(m) THEN {b} ELSE {})
    \cup (IF TRUE \in MutationGate(m) THEN {~b} ELSE {})

\* impl Target for neuron::Genome: activator, weights, bias, then the
\* transposition of the weights when the gate opens.
Neuron_mutate(g, m) ==
    UNION {
        UNION {
            {NeuronGenome(a, r.weights, b) :
                a \in Activator_mutate(g.activator, m),
                b \in f64_mutate(g.bias, m),
                r \in IF c THEN mutate_weights(w) ELSE {Unmutated(w)}} :
            c \in StructureGate(m)} :
        w \in Vec_mutate(g.weights, m)}

LayerGenome(neurons) == [neurons |-> neurons]

NetworkGenome(layers) == [layers |-> layers]

\* impl Target for Vec<neuron::Genome>.
RECURSIVE VecNeuron_mutate(_, _)
VecNeuron_mutate(v, m) ==
    IF v = <<>> THEN {<<>>}
    ELSE {<<x>> \o rest : x \in Neuron_mutate(Head(v), m), rest \in VecNeuron_mutate(Tail(v), m)}

\* impl Target for layer::Genome.
Layer_mutate(l, m) == {LayerGenome(ns) : ns \in VecNeuron_mutate(l.neurons, m)}

\* impl Target for Vec<layer::Genome>.
RECURSIVE VecLayer_mutate(_, _)
VecLayer_mutate(v, m) ==
    IF v = <<>> THEN {<<>>}
    ELSE {<<x>> \o rest : x \in Layer_mutate(Head(v), m), rest \in VecLayer_mutate(Tail(v), m)}

\* impl Target for network::Genome.
Network_mutate(n, m) == {NetworkGenome(ls) : ls \in VecLayer_mutate(n.layers, m)}

\* Mutator::mutate(target) is target.mutate(mutator).
Mutator_mutate(m, t) ==
    IF t.kind = "f64" THEN {Target("f64", x) : x \in f64_mutate(t.val, m)}
    ELSE IF t.kind = "bool" THEN {Target("bool", x) : x \in Bool_mutate(t.val, m)}
    ELSE IF t.kind = "gene" THEN {Target("gene", x) : x \in Gene_mutate(t.val, m)}
    ELSE IF t.kind = "neuron" THEN {Target("neuron", x) : x \in Neuron_mutate(t.val, m)}
    ELSE IF t.kind = "layer" THEN {Target("layer", x) : x \in Layer_mutate(t.val, m)}
    ELSE {Target("network", x) : x \in Network_mutate(t.val, m)}

\* Neurons of one weight, and the neuron of two weights that differ.
UnitNeuron(weight) == NeuronGenome(ActivatorGenome("Sigmoid"), <<weight>>, Num(0))

PairNeuron == NeuronGenome(ActivatorGenome("Linear"), <<Num(0), Num(2)>>, Num(2))

TargetLayers ==
    {LayerGenome(<<>>),
     LayerGenome(<<UnitNeuron(Num(0))>>),
     LayerGenome(<<UnitNeuron(Num(2)), UnitNeuron(Num(0))>>),
     LayerGenome(<<PairNeuron>>)}

TargetNetworks ==
    {NetworkGenome(<<>>),
     NetworkGenome(<<LayerGenome(<<PairNeuron>>)>>),
     NetworkGenome(<<LayerGenome(<<UnitNeuron(Num(2))>>), LayerGenome(<<UnitNeuron(Num(0))>>)>>)}

TargetKinds == {"f64", "bool", "gene", "neuron", "layer", "network"}

\* The targets of a kind.
Targets(kind) ==
    IF kind = "f64" THEN {Target(kind, x) : x \in {NaN, Num(0), Num(2)}}
    ELSE IF kind = "bool" THEN {Target(kind, x) : x \in BOOLEAN}
    ELSE IF kind = "gene" THEN {Target(kind, x) : x \in ActivatorGenes}
    ELSE IF kind = "neuron"
    THEN {Target(kind, NeuronGenome(ActivatorGenome("Linear"), w, Num(0))) :
            w \in SeqsUpTo({Num(0), Num(2)}, MaxGenes)}
    ELSE IF kind = "layer" THEN {Target(kind, x) : x \in TargetLayers}
    ELSE {Target(kind, x) : x \in TargetNetworks}

TargetInit ==
    /\ pc = "target"
    /\ \E kind \in TargetKinds : target \in Targets(kind)
    /\ mutator \in Mutators
    /\ target_mutated = target
    /\ vec_target = <<>>
    /\ vec_applied = <<>>
    /\ population = <<>>
    /\ bred = 0
    /\ neuron = NoNeuron
    /\ mutated = NoNeuron
    /\ vec_mutation = NoVecMutation
    /\ training_data = <<>>
    /\ elitism = 0
    /\ tournament_size = 0
    /\ RunIdle
    /\ SelectIdle
    /\ BuilderIdle
    /\ CalcIdle
    /\ CrossoverIdle
    /\ BreedIdle

\* One call of mutator.mutate(target).
MutateTarget ==
    /\ pc = "target"
    /\ target_mutated' \in Mutator_mutate(mutator, target)
    /\ pc' = "target_mutated"
    /\ UNCHANGED <<generation, training_data, elitism, tournament_size,
                   ranked_generation, next_generation, left, right, child,
                   elite, slots, result>>
    /\ UNCHANGED <<vec_target, vec_applied, target, population, bred>>
    /\ UNCHANGED <<selectVars, builderVars, calcVars, crossoverVars, mutateVars, breedVars>>

TargetNext == MutateTarget

SpecTarget == TargetInit /\ [][TargetNext]_vars

(***************************************************************************)
(* The genomes of a network through the generations: the crossover of the  *)
(* activation gene, of neurons, layers and networks, the breeder of the    *)
(* farm (crossover, then mutate), and Run::run on a generation of network  *)
(* genomes that all pass the evaluation.                                   *)
(***************************************************************************)
\* impl Crossover for activator::Gene.
Gene_crossover(self, other) == IF self = other THEN {self} ELSE {self, other}

\* impl Crossover for activator::Genome.
Activator_crossover(self, other) ==
    {ActivatorGenome(g) : g \in Gene_crossover(self.activator, other.activator)}

\* impl Crossover for neuron::Genome.
Neuron_crossover(self, other) ==
    {NeuronGenome(a, w, b) :
        a \in Activator_crossover(self.activator, other.activator),
        w \in Vec_crossover(self.weights, other.weights),
        b \in f64_crossover(self.bias, other.bias)}

RECURSIVE ZipNeuronCrossover(_, _, _)
ZipNeuronCrossover(self, other, n) ==
    IF n = 0 THEN {<<>>}
    ELSE {Append(z, c) : z \in ZipNeuronCrossover(self, other, n - 1),
                         c \in Neuron_crossover(self[n], other[n])}

\* Mutation of VecNeuron_crossover: the rest is chained without skipping the
\* members that were crossed.
VecNeuron_crossover_unskipped(self, other) ==
    LET self_len == Len(self)
        other_len == Len(other)
        min_size == Min(self_len, other_len)
        rest == IF self_len < other_len THEN other ELSE self
    IN  {z \o rest : z \in ZipNeuronCrossover(self, other, min_size)}

\* impl Crossover for Vec<T>, T being neuron::Genome.
VecNeuron_crossover(self, other) ==
    LET self_len == Len(self)
        other_len == Len(other)
        min_size == Min(self_len, other_len)
        rest == IF self_len < other_len
                THEN SubSeq(other, min_size + 1, other_len)
                ELSE SubSeq(self, min_size + 1, self_len)
    IN  {z \o rest : z \in ZipNeuronCrossover(self, other, min_size)}

\* impl Crossover for layer::Genome.
Layer_crossover(self, other) ==
    {LayerGenome(ns) : ns \in VecNeuron_crossover(self.neurons, other.neurons)}

RECURSIVE ZipLayerCrossover(_, _, _)
ZipLayerCrossover(self, other, n) ==
    IF n = 0 THEN {<<>>}
    ELSE {Append(z, c) : z \in ZipLayerCrossover(self, other, n - 1),
                         c \in Layer_crossover(self[n], other[n])}

\* impl Crossover for Vec<T>, T being layer::Genome.
VecLayer_crossover(self, other) ==
    LET self_len == Len(self)
        other_len == Len(other)
        min_size == Min(self_len, other_len)
        rest == IF self_len < other_len
                THEN SubSeq(other, min_size + 1, other_len)
                ELSE SubSeq(self, min_size + 1, self_len)
    IN  {z \o rest : z \in ZipLayerCrossover(self, other, min_size)}

\* impl Crossover for network::Genome.
Network_crossover(self, other) ==
    {NetworkGenome(ls) : ls \in VecLayer_crossover(self.layers, other.layers)}

\* Manager::breed with the Breeder of the farm: crossover of the pair, then
\* mutate of the offspring.
Breeder_breed(m, self, other) ==
    UNION {Network_mutate(c, m) : c \in Network_crossover(self, other)}

\* A network of one layer of one neuron.
ShapeNetwork(activator, weights) ==
    NetworkGenome(<<LayerGenome(<<NeuronGenome(ActivatorGenome(activator), weights, Num(0))>>)>>)

\* The mutators of the breeder: one that never mutates, and one that only
\* transposes (its size of 0 closes the gate of the values).
ShapeMutators == {Mutator(Num(0), Num(1)), Mutator(Fin(1, 2), Num(0))}

\* Generations of two networks of the same structure.
ShapeGenerations ==
    {<<ShapeNetwork("Linear", <<Num(0), Num(2)>>), ShapeNetwork(a, <<Num(0), Num(2)>>)>> :
        a \in ActivatorGenes}

ShapeInit ==
    /\ pc = "shape_breed"
    /\ population \in ShapeGenerations
    /\ next_generation = <<>>
    /\ bred = 0
    /\ mutator \in ShapeMutators
    /\ elitism \in {0, 1}
    /\ generation = <<>>
    /\ training_data = <<>>
    /\ tournament_size = 0
    /\ ranked_generation = <<>>
    /\ left = None
    /\ right = None
    /\ child = NoChild
    /\ elite = <<>>
    /\ slots = <<>>
    /\ result = <<>>
    /\ neuron = NoNeuron
    /\ mutated = NoNeuron
    /\ vec_mutation = NoVecMutation
    /\ vec_target = <<>>
    /\ vec_applied = <<>>
    /\ target = Target("f64", Num(0))
    /\ target_mutated = Target("f64", Num(0))
    /\ SelectIdle
    /\ BuilderIdle
    /\ CalcIdle
    /\ CrossoverIdle
    /\ BreedIdle

ShapeFrame ==
    /\ UNCHANGED <<generation, training_data, elitism, tournament_size,
                   ranked_generation, left, right, child, elite, slots, result>>
    /\ UNCHANGED <<vec_target, vec_applied, target, target_mutated>>
    /\ UNCHANGED <<selectVars, builderVars, calcVars, crossoverVars, mutateVars, breedVars>>

\* One turn of the loop of new_generation: two parents are selected from the
\* generation, bred, and the offspring joins the next generation.
ShapeBreed ==
    /\ pc = "shape_breed"
    /\ bred < MaxBred
    /\ \E l \in 1..Len(population), r \in 1..Len(population) :
          \E c \in Breeder_breed(mutator, population[l], population[r]) :
              next_generation' = Append(next_generation, c)
    /\ bred' = bred + 1
    /\ pc' = IF LoopContinues(next_generation', population)
             THEN "shape_breed" ELSE "shape_return"
    /\ UNCHANGED population
    /\ ShapeFrame

\* The end of Run::run: the elite is injected into the next generation, and
\* the result is the generation of the next call.
ShapeReturn ==
    /\ pc = "shape_return"
    /\ IF elitism = 0
       THEN population' = next_generation
       ELSE \E e \in 1..Len(population), index \in 1..Len(next_generation) :
               population' = inject_one(next_generation, population[e], index)
    /\ next_generation' = <<>>
    /\ pc' = "shape_breed"
    /\ UNCHANGED bred
    /\ ShapeFrame

ShapeNext ==
    \/ ShapeBreed
    \/ ShapeReturn

SpecShape == ShapeInit /\ [][ShapeNext]_vars

(***************************************************************************)
(* Vocabulary of the properties.                                           *)
(***************************************************************************)
Range(q) == {q[i] : i \in 1..Len(q)}

Distinct(q) == \A i, j \in 1..Len(q) : q[i] = q[j] => i = j

\* a < b and a <= b on numbers that are neither NaN nor infinite.
FitLess(a, b) == a.n * b.d < b.n * a.d

FitLeq(a, b) == a.n * b.d <= b.n * a.d

Fails(g) == ~check(training_data, g).ok

\* Number of pool members that come before member i in ascending order of
\* fitness, members of equal fitness keeping the order of the input.
StableRank(pool, i) ==
    Cardinality({j \in 1..Len(pool) :
        \/ FitLess(pool[j].fitness, pool[i].fitness)
        \/ pool[j].fitness = pool[i].fitness /\ j < i})

\* The genomes of the pool that are among the k of lowest fitness.
Lowest(pool, k) == {i \in 1..Len(pool) : StableRank(pool, i) < k}

Returned == pc = "done"

(***************************************************************************)
(* C1. Generation-size invariant: run returns a generation as long as the  *)
(* generation it was given (N >= 1), also when some genomes fail the       *)
(* fitness evaluation.                                                     *)
(***************************************************************************)
GenerationSizeInvariant ==
    (Returned /\ Len(generation) >= 1) => Len(result) = Len(generation)

ElitismUnconditional ==
    (Returned /\ Len(ranked_generation) >= elitism) =>
        \A i \in Lowest(ranked_generation, elitism) :
            ranked_generation[i].predict \in Range(result)

(***************************************************************************)
(* C3, amended: the genome of rank r (r-th lowest fitness) sits in the     *)
(* output at the slot drawn for it unless a later elite drew that slot     *)
(* again; the elite injected last is therefore always present.             *)
(***************************************************************************)
ElitismSurvivors ==
    (Returned /\ Len(ranked_generation) >= elitism) =>
        /\ Len(slots) = elitism
        /\ \A i \in Lowest(ranked_generation, elitism) :
              LET e == StableRank(ranked_generation, i) + 1
              IN  (\A later \in (e + 1)..Len(slots) : slots[later] # slots[e]) =>
                      result[slots[e]] = ranked_generation[i].predict

\* A collision: the second elite drew the slot of the first, whose genome
\* is no longer anywhere in the output.
ElitismSurvivorsWitness ==
    /\ Returned
    /\ elitism = 2
    /\ Len(ranked_generation) >= 2
    /\ Len(slots) = 2
    /\ slots[1] = slots[2]
    /\ \E i \in Lowest(ranked_generation, 1) :
          ranked_generation[i].predict \notin Range(result)
    /\ \E i \in Lowest(ranked_generation, 2) \ Lowest(ranked_generation, 1) :
          result[slots[2]] = ranked_generation[i].predict

(***************************************************************************)
(* Vocabulary of the tournament properties.                                *)
(***************************************************************************)
Selected == pc = "selected"

DistinctFitness(cands) ==
    \A i, j \in 1..Len(cands) : cands[i].fitness = cands[j].fitness => i = j

\* The positions of the sample whose record has the lowest sampled fitness.
BestPositions(cands, ids) ==
    {p \in 1..Len(ids) :
        \A q \in 1..Len(ids) : FitLeq(cands[ids[p]].fitness, cands[ids[q]].fitness)}

First(P) == CHOOSE p \in P : \A q \in P : p <= q

Last(P) == CHOOSE p \in P : \A q \in P : q <= p

(***************************************************************************)
(* C4. Tournament correctness: when tournament_size is at least the number *)
(* of candidates and the fitnesses are pairwise distinct, select returns   *)
(* the record of globally lowest fitness, whatever the shuffle.            *)
(***************************************************************************)
TournamentCorrect ==
    (/\ Selected
     /\ candidates # <<>>
     /\ tournament_size >= Len(candidates)
     /\ DistinctFitness(candidates)) =>
        /\ winner \in 1..Len(candidates)
        /\ \A j \in 1..Len(candidates) :
              j # winner => FitLess(candidates[winner].fitness, candidates[j].fitness)

\* Three candidates of distinct fitness, all sampled, the best one neither
\* first in the slice nor first in the shuffle.
TournamentCorrectWitness ==
    /\ Selected
    /\ Len(candidates) = 3
    /\ tournament_size = 3
    /\ DistinctFitness(candidates)
    /\ Len(sample) = 3
    /\ winner \notin {0, 1, sample[1]}

(***************************************************************************)
(* C5. As claimed: the winner has the lowest fitness of the sample and,    *)
(* among the sampled records of that fitness, is the first in sample order.*)
(***************************************************************************)
TieBreakFirst ==
    (Selected /\ sample # <<>>) =>
        winner = sample[First(BestPositions(candidates, sample))]

(***************************************************************************)
(* C5, amended: the winner has the lowest fitness of the sample and, among *)
(* the sampled records of that fitness, is the last in sample order.       *)
(***************************************************************************)
TieBreakLast ==
    (Selected /\ sample # <<>>) =>
        /\ winner \in Range(sample)
        /\ \A q \in 1..Len(sample) :
              FitLeq(candidates[winner].fitness, candidates[sample[q]].fitness)
        /\ winner = sample[Last(BestPositions(candidates, sample))]

\* Two sampled records share the lowest fitness, a worse record was sampled
\* between them, and the later of the two won.
TieBreakLastWitness ==
    /\ Selected
    /\ Len(sample) = 3
    /\ BestPositions(candidates, sample) = {1, 3}
    /\ winner = sample[3]

(***************************************************************************)
(* C6. select returns None only if the pool is empty: for a slice that is  *)
(* not empty, and any tournament_size, it returns a record of the slice.   *)
(***************************************************************************)
SelectSomeUnlessEmpty ==
    (Selected /\ candidates # <<>>) => winner \in 1..Len(candidates)

(***************************************************************************)
(* C7. Tournament sampling: a select examines min(tournament_size,         *)
(* len(candidates)) records, at pairwise distinct indexes of the slice.    *)
(***************************************************************************)
SampleWithoutReplacement ==
    Selected =>
        /\ Len(sample) = (IF tournament_size < Len(candidates)
                          THEN tournament_size ELSE Len(candidates))
        /\ Distinct(sample)
        /\ Range(sample) \subseteq 1..Len(candidates)

\* A proper sample: two of three candidates, not in slice order.
SampleWithoutReplacementWitness ==
    /\ Selected
    /\ Len(candidates) = 3
    /\ tournament_size = 2
    /\ Len(sample) = 2
    /\ sample[1] > sample[2]

(***************************************************************************)
(* Vocabulary of the failure properties.                                   *)
(***************************************************************************)
AllFail == \A i \in 1..Len(generation) : Fails(generation[i])

Ranked == pc # "rank"

\* A fitness that was computed: neither NaN nor infinite, and not negative.
ValidFitness(f) == f.k = "fin" /\ f.n >= 0 /\ f.d > 0

(***************************************************************************)
(* C8. Empty-pool failure mode: if every genome of the input fails the     *)
(* fitness evaluation, the breed loop cannot terminate: run never returns. *)
(***************************************************************************)
EmptyPoolNeverReturns ==
    (Len(generation) >= 1 /\ AllFail) => ~Returned

(***************************************************************************)
(* What the code does on an empty pool: the size the breed loop aims at is *)
(* the length of the pool, so its condition is false at once, no iteration *)
(* is executed and run returns an empty generation.                        *)
(***************************************************************************)
EmptyPoolReturnsEmpty ==
    (Len(generation) >= 1 /\ AllFail /\ Ranked) =>
        /\ ranked_generation = <<>>
        /\ next_generation = <<>>
        /\ child.state = "none"
        /\ ~left.some /\ ~right.some
        /\ pc \in {"breed", "inject", "done"}
        /\ pc = "breed" => ~(Len(next_generation) < Len(ranked_generation))
        /\ elite = <<>>
        /\ Returned => result = <<>>

\* run has returned although every one of three genomes failed, for a
\* tournament that would have sampled them.
EmptyPoolReturnsEmptyWitness ==
    /\ Returned
    /\ Len(generation) = 3
    /\ AllFail
    /\ training_data # <<>>
    /\ tournament_size >= 1
    /\ elitism >= 1
    /\ result = <<>>

(***************************************************************************)
(* C9. Drop-on-error: an input genome whose fitness evaluation fails is    *)
(* not in the ranked pool, is never a tournament parent and is never an    *)
(* elite.                                                                  *)
(***************************************************************************)
DropOnError ==
    \A i \in 1..Len(generation) :
        Fails(generation[i]) =>
            /\ generation[i] \notin Range(unrank_generation(ranked_generation))
            /\ left.some => left.rec.predict # generation[i]
            /\ right.some => right.rec.predict # generation[i]
            /\ generation[i] \notin Range(elite)

\* A genome failed with ResultNaN and another with ResultInfinite, the
\* third one was ranked, and both parents of an iteration were selected.
DropOnErrorWitness ==
    /\ pc = "breed"
    /\ \E i, j \in 1..Len(generation) :
          /\ check(training_data, generation[i]).err = "ResultNaN"
          /\ check(training_data, generation[j]).err = "ResultInfinite"
    /\ Len(ranked_generation) = 1
    /\ left.some
    /\ right.some

(***************************************************************************)
(* C10. Every record of the ranked pool and of the next generation carries *)
(* a fitness that was computed (finite, not negative), namely the one of   *)
(* its genome; an offspring whose evaluation fails is not appended: the    *)
(* next generation is left as it was and the loop goes on.                 *)
(***************************************************************************)
RecordsValid ==
    \A r \in Range(ranked_generation) \cup Range(next_generation) :
        /\ ValidFitness(r.fitness)
        /\ check(training_data, r.predict) = Ok(r.fitness)

DiscardRetries ==
    (child' # child /\ child'.state \in {"appended", "discarded"} /\ Fails(child'.genome)) =>
        /\ next_generation' = next_generation
        /\ pc' = "breed"
        /\ Len(next_generation') < Len(ranked_generation')

OnlyComputedFitness == []RecordsValid /\ [][DiscardRetries]_vars

\* An offspring was appended, then the next one failed and was discarded
\* while the loop still has to produce offspring.
OnlyComputedFitnessWitness ==
    /\ pc = "breed"
    /\ child.state = "discarded"
    /\ Fails(child.genome)
    /\ Len(next_generation) = 1
    /\ Len(ranked_generation) = 3

(***************************************************************************)
(* C11. Configuration errors fail fast at build time: build returns        *)
(* Err(BreederNotSet) when no breeder or breeder manager was set (also     *)
(* when the fitness calculator is missing too), Err(FitnessCalcNotSet)     *)
(* when a breeder was set but no fitness calculator, and Ok only when both *)
(* were set; the Run it then returns holds both collaborators, so no Run   *)
(* exists that lacks one.                                                  *)
(***************************************************************************)
Built == pc = "built"

ConfigurationErrors ==
    Built =>
        /\ ~builder.breeder.some => built = BuildErr("BreederNotSet")
        /\ (builder.breeder.some /\ ~builder.fitness_calc.some) =>
              built = BuildErr("FitnessCalcNotSet")
        /\ built.ok <=> (builder.breeder.some /\ builder.fitness_calc.some)
        /\ built.ok =>
              /\ built.run.breeder = builder.breeder.val
              /\ built.run.fitness_calc = builder.fitness_calc.val
              /\ built.run.elitism = builder.elitism
              /\ built.run.tournament_size = builder.tournament_size

\* build was called on a builder whose elitism was set but that has neither
\* a breeder nor a fitness calculator: the breeder is the one reported.
ConfigurationErrorsWitness ==
    /\ Built
    /\ builder.elitism # Builder_default.elitism
    /\ ~builder.breeder.some
    /\ ~builder.fitness_calc.some
    /\ built.err = "BreederNotSet"

(***************************************************************************)
(* Vocabulary of the fitness properties: the fitness as the specification  *)
(* states it, in exact arithmetic.                                         *)
(***************************************************************************)
Checked == pc = "checked"

\* Number of paired (expected, actual) elements of training record t.
PairedLen(t) ==
    LET actual == predict(predictor, training_data[t].input)
        expected == training_data[t].output
    IN  IF Len(expected) < Len(actual) THEN Len(expected) ELSE Len(actual)

\* (expected - actual)^2 for pair i of training record t.
SquaredError(t, i) ==
    LET d == F_sub(training_data[t].output[i], predict(predictor, training_data[t].input)[i])
    IN  F_mul(d, d)

RECURSIVE SquaredErrorSum(_, _)
SquaredErrorSum(t, n) ==
    IF n = 0 THEN Num(0) ELSE F_add(SquaredErrorSum(t, n - 1), SquaredError(t, n))

\* The per-record mean of the squared errors, as a plain quotient.
MeanSquaredError(t) == F_div(SquaredErrorSum(t, PairedLen(t)), Num(PairedLen(t)))

RECURSIVE MeanSquaredErrorSum(_)
MeanSquaredErrorSum(n) ==
    IF n = 0 THEN Num(0) ELSE F_add(MeanSquaredErrorSum(n - 1), MeanSquaredError(n))

AverageMse == F_div(MeanSquaredErrorSum(Len(training_data)), Num(Len(training_data)))

\* Every record pairs at least one element, and every value involved is a
\* number: the average is defined.
AverageDefined ==
    /\ training_data # <<>>
    /\ \A t \in 1..Len(training_data) :
          /\ PairedLen(t) >= 1
          /\ \A i \in 1..PairedLen(t) : is_finite(SquaredError(t, i))

ExactPredictor ==
    \A t \in 1..Len(training_data) :
        predict(predictor, training_data[t].input) = training_data[t].output

(***************************************************************************)
(* C12. Fitness value: check returns the average over the training records *)
(* of the per-record mean of (expected - actual)^2 over the paired         *)
(* elements, pairing stopping at the shorter sequence.  Whenever that      *)
(* average is defined check returns it; a predictor that returns exactly   *)
(* the expected outputs then has fitness 0, and the prediction [0] against *)
(* the expected [1,2,3,4] has fitness 1.                                   *)
(***************************************************************************)
FitnessValue ==
    Checked =>
        /\ check_result.ok => check_result.val = AverageMse
        /\ AverageDefined => check_result = Ok(AverageMse)
        /\ (AverageDefined /\ ExactPredictor) => check_result = Ok(Num(0))
        /\ (/\ predictor = ConstPredictor(<<Num(0)>>)
            /\ training_data = <<TrainingRecord(<<Num(1), Num(2), Num(3), Num(4)>>,
                                                <<Num(1), Num(2), Num(3), Num(4)>>)>>)
              => check_result = Ok(Num(1))

\* Two records of different paired lengths and different means: the
\* predictor 2x against [1,2,3,4] (mean 30/4) and against [0] (mean 4).
FitnessValueWitness ==
    /\ Checked
    /\ Len(training_data) = 2
    /\ PairedLen(1) = 4
    /\ PairedLen(2) = 1
    /\ MeanSquaredError(1) = Fin(15, 2)
    /\ MeanSquaredError(2) = Num(4)
    /\ check_result = Ok(Fin(23, 4))

(***************************************************************************)
(* C13. Checked division: check returns a classified error, never an Ok    *)
(* value, when the training set is empty, when some record pairs no        *)
(* element, and when a quotient is NaN or infinite: the error is the class *)
(* of the first quotient, in the order of the divisions, that is not a     *)
(* number (NaN gives ResultNaN, infinite gives ResultInfinite); 0/0 is     *)
(* ResultNaN and non-zero/0 is ResultInfinite.                             *)
(***************************************************************************)
Classify(q) ==
    IF is_nan(q) THEN "ResultNaN" ELSE IF is_infinite(q) THEN "ResultInfinite" ELSE "none"

\* The training records whose per-record quotient is not a number.
BadRecords == {t \in 1..Len(training_data) : ~is_finite(MeanSquaredError(t))}

ClassifiedErrors ==
    Checked =>
        /\ training_data = <<>> => check_result = Err("ResultNaN")
        /\ \A t \in 1..Len(training_data) :
              PairedLen(t) = 0 => ~check_result.ok /\ check_result.err # "none"
        /\ BadRecords # {} =>
              check_result = Err(Classify(MeanSquaredError(CHOOSE t \in BadRecords :
                                                              \A u \in BadRecords : t <= u)))
        /\ (BadRecords = {} /\ ~is_finite(AverageMse)) =>
              check_result = Err(Classify(AverageMse))
        /\ check_result.ok => is_finite(check_result.val)
        /\ checked_divide(Num(0), Num(0)) = Err("ResultNaN")
        /\ \A n \in {Num(-1), Num(1), Inf(1)} :
              checked_divide(n, Num(0)) = Err("ResultInfinite")

\* The first record is fine, the second one pairs no element (0/0): the
\* error is ResultNaN although the first mean was computed.
ClassifiedErrorsWitness ==
    /\ Checked
    /\ Len(training_data) = 2
    /\ PairedLen(1) >= 1
    /\ is_finite(MeanSquaredError(1))
    /\ PairedLen(2) = 0
    /\ check_result = Err("ResultNaN")

(***************************************************************************)
(* Vocabulary of the best_entity properties.                               *)
(***************************************************************************)
BestReturned == pc = "best_returned"

\* The compare record of candidate i.
EntityRecord(i) == CompareRecord(check(training_data, entities[i]).val, entities[i])

Computable(i) == check(training_data, entities[i]).ok

AllComputable == \A i \in 1..Len(entities) : Computable(i)

(***************************************************************************)
(* C14. best_entity result: when the fitness of every candidate can be     *)
(* computed, best_entity returns Ok(None) if and only if the slice is      *)
(* empty, and otherwise a candidate that no candidate beats under the      *)
(* comparator handed in; of the candidates that compare equal at that      *)
(* minimum it returns the earliest of the slice.                           *)
(***************************************************************************)
BestEntityResult ==
    (BestReturned /\ AllComputable) =>
        /\ best.ok
        /\ best.idx = 0 <=> entities = <<>>
        /\ entities # <<>> =>
              /\ best.idx \in 1..Len(entities)
              /\ \A j \in 1..Len(entities) :
                    compare(comparator, EntityRecord(best.idx), EntityRecord(j)) \in {"Less", "Equal"}
              /\ \A j \in 1..(best.idx - 1) :
                    compare(comparator, EntityRecord(j), EntityRecord(best.idx)) = "Greater"

\* Three candidates compared by fitness: the worst one first, then two
\* different candidates of the same, lowest fitness; the earlier is returned.
BestEntityResultWitness ==
    /\ BestReturned
    /\ comparator = "Comparator"
    /\ Len(entities) = 3
    /\ AllComputable
    /\ entities[2] # entities[3]
    /\ EntityRecord(2).fitness = EntityRecord(3).fitness
    /\ FitLess(EntityRecord(2).fitness, EntityRecord(1).fitness)
    /\ best = BestOk(2)

(***************************************************************************)
(* C15. best_entity error propagation: if the fitness of some candidate    *)
(* cannot be computed, best_entity returns Err with the error of the first *)
(* such candidate of the slice and no entity, also when other candidates   *)
(* are valid, and whatever the comparator, which is not called at all.     *)
(***************************************************************************)
BestEntityError ==
    (BestReturned /\ ~AllComputable) =>
        LET first == CHOOSE i \in 1..Len(entities) :
                        ~Computable(i) /\ \A j \in 1..(i - 1) : Computable(j)
        IN  /\ best = BestErr(check(training_data, entities[first]).err)
            /\ best.idx = 0
            /\ compare_calls = 0
            /\ \A c \in Comparators : best_entity(training_data, entities, c) = best

\* A valid candidate, then one that fails with ResultInfinite, then one
\* that fails with ResultNaN: the error is ResultInfinite.
BestEntityErrorWitness ==
    /\ BestReturned
    /\ Len(entities) = 3
    /\ Computable(1)
    /\ check(training_data, entities[2]).err = "ResultInfinite"
    /\ check(training_data, entities[3]).err = "ResultNaN"
    /\ best = BestErr("ResultInfinite")

(***************************************************************************)
(* C16. Crossover blend bounds: for numbers a and b (neither NaN nor       *)
(* infinite) the f64 crossover of a and b lies in [min(a,b), max(a,b)],    *)
(* and when a = b it is a.                                                 *)
(***************************************************************************)
CrossedF64 == pc = "crossed_f64"

BlendBounds ==
    (CrossedF64 /\ is_finite(gene_left) /\ is_finite(gene_right)) =>
        /\ is_finite(gene_child)
        /\ FitLeq(gene_left, gene_child) \/ FitLeq(gene_right, gene_child)
        /\ FitLeq(gene_child, gene_left) \/ FitLeq(gene_child, gene_right)
        /\ gene_left = gene_right => gene_child = gene_left

\* A blend strictly between two different numbers.
BlendBoundsWitness ==
    /\ CrossedF64
    /\ is_finite(gene_left)
    /\ is_finite(gene_right)
    /\ FitLess(gene_right, gene_child)
    /\ FitLess(gene_child, gene_left)

(***************************************************************************)
(* C17. Sequence crossover: crossover(a, b) is as long as the longer of a  *)
(* and b; each of its first min(len(a), len(b)) elements is a crossover of *)
(* a[i] and b[i], and the others are the tail of the longer parent, in     *)
(* order and unchanged.                                                    *)
(***************************************************************************)
CrossedVec == pc = "crossed_vec"

SequenceCrossover ==
    CrossedVec =>
        LET shorter == IF Len(vec_left) < Len(vec_right) THEN vec_left ELSE vec_right
            longer == IF Len(vec_left) < Len(vec_right) THEN vec_right ELSE vec_left
        IN  /\ Len(vec_child) = Len(longer)
            /\ \A i \in 1..Len(shorter) :
                  vec_child[i] \in f64_crossover(vec_left[i], vec_right[i])
            /\ \A i \in (Len(shorter) + 1)..Len(longer) : vec_child[i] = longer[i]

\* self is the shorter parent: the first gene is a blend strictly between
\* those of the parents, the second is the surplus gene of other.
SequenceCrossoverWitness ==
    /\ CrossedVec
    /\ Len(vec_left) = 1
    /\ Len(vec_right) = 2
    /\ Len(vec_child) = 2
    /\ vec_child[1] \notin {vec_left[1], vec_right[1]}
    /\ is_finite(vec_left[1]) /\ is_finite(vec_right[1])
    /\ vec_child[2] = vec_right[2]
    /\ vec_right[2] # vec_right[1]

(***************************************************************************)
(* C18. Mutation never changes the length of a sequence: the Vec mutation  *)
(* mutates every member in place, and the structural mutation of a neuron  *)
(* applies Replace, Swap or Reverse only, a generated Insert or Remove     *)
(* leaving the weights as they were; after neuron::Genome::mutate there    *)
(* are as many weights as before.                                          *)
(***************************************************************************)
WeightsLengthKept ==
    /\ Len(mutated.weights) = Len(neuron.weights)
    /\ pc = "mutate_weights" =>
          \A i \in 1..Len(neuron.weights) :
              mutated.weights[i] \in f64_mutate(neuron.weights[i], mutator)

InsertRemoveDiscarded ==
    (pc' = "mutated" /\ vec_mutation'.kind \in {"none", "Insert", "Remove"}) =>
        mutated' = mutated

MutationKeepsLength == []WeightsLengthKept /\ [][InsertRemoveDiscarded]_vars

\* mutate has returned: both weights were changed by the Vec mutation, then
\* mutate_weights generated an Insert and dropped it.
MutationKeepsLengthWitness ==
    /\ pc = "mutated"
    /\ Len(neuron.weights) = 2
    /\ \A i \in 1..2 : mutated.weights[i] # neuron.weights[i]
    /\ vec_mutation.kind = "Insert"
    /\ Len(mutated.weights) = 2

(***************************************************************************)
(* C19. Elite extraction: the elite set computed by run is made of exactly *)
(* min(elitism, pool size) genomes of the ranked pool (not of the          *)
(* offspring): the first ones of the pool in ascending order of fitness,   *)
(* genomes of equal fitness in the order of the input; every elite has a   *)
(* fitness that is at most that of every other member of the pool.         *)
(***************************************************************************)
\* partition_elite has returned and nothing was injected yet.
Partitioned == pc = "inject" /\ slots = <<>>

EliteExtraction ==
    Partitioned =>
        LET k == IF elitism < Len(ranked_generation) THEN elitism ELSE Len(ranked_generation)
        IN  /\ Len(elite) = k
            /\ \A r \in 1..k :
                  \E i \in 1..Len(ranked_generation) :
                      /\ StableRank(ranked_generation, i) = r - 1
                      /\ elite[r] = ranked_generation[i].predict
            /\ \A i, j \in 1..Len(ranked_generation) :
                  (i \in Lowest(ranked_generation, k) /\ j \notin Lowest(ranked_generation, k)) =>
                      /\ FitLeq(ranked_generation[i].fitness, ranked_generation[j].fitness)
                      /\ ranked_generation[i].fitness = ranked_generation[j].fitness => i < j

\* One elite out of a pool of three: two different genomes tie for the
\* lowest fitness behind a worse one, the earlier of the two is the elite,
\* and it is not among the offspring.
EliteExtractionWitness ==
    /\ Partitioned
    /\ elitism = 1
    /\ Len(ranked_generation) = 3
    /\ ranked_generation[2].fitness = ranked_generation[3].fitness
    /\ ranked_generation[2].predict # ranked_generation[3].predict
    /\ FitLess(ranked_generation[2].fitness, ranked_generation[1].fitness)
    /\ elite = <<ranked_generation[2].predict>>
    /\ ranked_generation[2].predict \notin Range(result)

(***************************************************************************)
(* C20. Elite injection frame: the generation inject::genomes returns is   *)
(* as long as the one it was given; a slot whose index was drawn for no    *)
(* elite holds what it held, a drawn slot holds the last elite that drew   *)
(* it, and so the elite injected last (a single elite in particular) is in *)
(* the result.  Stated for every step of the injection.                    *)
(***************************************************************************)
Injecting == pc \in {"inject", "done"}

\* The elites handed to inject::genomes by run.
GivenElite == partition_elite(elitism, ranked_generation)

\* The draws, in order, that hit slot i.
DrawsOf(i) == {p \in 1..Len(slots) : slots[p] = i}

InjectionFrame ==
    Injecting =>
        /\ Len(result) = Len(next_generation)
        /\ Len(slots) + Len(elite) = Len(GivenElite)
        /\ elite = SubSeq(GivenElite, Len(slots) + 1, Len(GivenElite))
        /\ \A i \in 1..Len(result) :
              IF DrawsOf(i) = {}
              THEN result[i] = next_generation[i].predict
              ELSE result[i] = GivenElite[Last(DrawsOf(i))]
        /\ (Returned /\ GivenElite # <<>>) =>
              GivenElite[Len(GivenElite)] \in Range(result)

\* Two different elites drew the same slot of a generation of three: the
\* slot holds the second elite, which its offspring was not, and the two
\* other slots hold their offspring.
InjectionFrameWitness ==
    /\ Returned
    /\ Len(result) = 3
    /\ Len(slots) = 2
    /\ slots[1] = slots[2]
    /\ GivenElite[1] # GivenElite[2]
    /\ result[slots[2]] = GivenElite[2]
    /\ next_generation[slots[2]].predict # GivenElite[2]
    /\ \A i \in 1..3 : i # slots[2] => result[i] = next_generation[i].predict

(***************************************************************************)
(* C21. Run::run returns a generation that is not equal, as an ordered     *)
(* sequence, to its input: for the generation 1, 2, 3 whose fitnesses are  *)
(* all equal, the breeder whose crossover is the mean of the parents and   *)
(* whose mutation is the identity, elitism 1 and tournament_size 2, every  *)
(* outcome of run differs from the input.                                  *)
(***************************************************************************)
TestRun == breeder = "Breeder" /\ tournament_size = 2 /\ elitism = 1

RunChangesGeneration == (TestRun /\ Returned) => result # generation

(***************************************************************************)
(* C22. Breeding order: breed(left, right) calls crossover(left, right)    *)
(* first, then mutate on its result, once, and returns what mutate         *)
(* returned; with the default mutate of the Breed trait the offspring is   *)
(* the crossover result.                                                   *)
(***************************************************************************)
Bred == pc = "bred"

BreedingOrder ==
    Bred =>
        /\ Len(breed_calls) = 2
        /\ breed_calls[1].fn = "crossover"
        /\ breed_calls[1].args = <<breed_left, breed_right>>
        /\ breed_calls[1].ret = crossover(breed_left, breed_right)
        /\ breed_calls[2].fn = "mutate"
        /\ breed_calls[2].args = <<breed_calls[1].ret>>
        /\ offspring = breed_calls[2].ret
        /\ \E shift \in Breeder_shifts(breeder) :
              offspring = mutate(breed_calls[1].ret, shift)
        /\ breeder = "Breeder" => offspring = crossover(breed_left, breed_right)

\* The offspring of the test of the manager: 1 and 2 bred to 1.5 by the
\* default mutate, and a mutation that changed a crossover result.
BreedingOrderWitness ==
    /\ Bred
    /\ breed_left = Num(1)
    /\ breed_right = Num(2)
    /\ \/ breeder = "Breeder" /\ offspring = Fin(3, 2)
       \/ breeder = "MutatingBreeder" /\ offspring # Fin(3, 2)

(***************************************************************************)
(* C23. Breed-loop termination: when the ranked pool is not empty,         *)
(* tournament_size is at least 1 and offspring pass the evaluation again   *)
(* and again (fairness), the breed loop ends with a next generation of     *)
(* exactly the size of the pool and run returns; an iteration that fails   *)
(* (a select gave None, or the offspring failed the evaluation) leaves the *)
(* next generation as it was.                                              *)
(***************************************************************************)
LoopEntered == pc = "breed" /\ ranked_generation # <<>> /\ tournament_size >= 1

LoopLeft == pc = "inject" /\ Len(next_generation) = Len(ranked_generation)

FailedIteration == pc = "breed" /\ child' # child /\ child'.state \in {"skipped", "discarded"}

FailedIterationFrame == FailedIteration => next_generation' = next_generation

BreedLoopTerminates ==
    /\ LoopEntered ~> LoopLeft
    /\ LoopEntered ~> (Returned /\ Len(result) = Len(ranked_generation))
    /\ [][FailedIterationFrame]_vars

\* run has returned a generation of the size of a pool of two, bred by a
\* breeder whose mutation makes offspring fail.
BreedLoopTerminatesWitness ==
    /\ Returned
    /\ Len(ranked_generation) = 2
    /\ Len(result) = 2
    /\ tournament_size = 1
    /\ breeder = "MutatingBreeder"

(***************************************************************************)
(* C24. The effect of VecMutation::apply on the vector: Insert(i, x) makes *)
(* it one longer with x at index i, Remove(i) makes it one shorter,        *)
(* Replace(i, x) changes position i only, Swap(i, j) exchanges positions i *)
(* and j, Reverse(i, j) reverses the slice from min(i, j) to max(i, j)     *)
(* inclusive; Replace, Swap and Reverse keep the length, Swap and Reverse  *)
(* keep the multiset of the elements, and the positions that are not named *)
(* keep their elements (after an Insert or Remove, shifted by one).        *)
(***************************************************************************)
Applied == pc = "applied"

\* How often x occurs in q.
Count(q, x) == Cardinality({p \in 1..Len(q) : q[p] = x})

SameMultiset(q, r) == \A x \in Range(q) \cup Range(r) : Count(q, x) = Count(r, x)

\* Positions count from 0, as the indexes of the mutation do.
At(q, p) == q[p + 1]

Positions(q) == 0..(Len(q) - 1)

ApplyEffect ==
    Applied =>
        LET mu == vec_mutation
            old == vec_target
            new == vec_applied
            lo == IF mu.i < mu.j THEN mu.i ELSE mu.j
            hi == IF mu.i < mu.j THEN mu.j ELSE mu.i
        IN  /\ mu.kind = "Insert" =>
                /\ Len(new) = Len(old) + 1
                /\ At(new, mu.i) = mu.element
                /\ \A p \in Positions(old) :
                      At(old, p) = At(new, IF p < mu.i THEN p ELSE p + 1)
            /\ mu.kind = "Remove" =>
                /\ Len(new) = Len(old) - 1
                /\ \A p \in Positions(new) :
                      At(new, p) = At(old, IF p < mu.i THEN p ELSE p + 1)
            /\ mu.kind = "Replace" =>
                /\ Len(new) = Len(old)
                /\ At(new, mu.i) = mu.element
                /\ \A p \in Positions(old) \ {mu.i} : At(new, p) = At(old, p)
            /\ mu.kind = "Swap" =>
                /\ Len(new) = Len(old)
                /\ At(new, mu.i) = At(old, mu.j)
                /\ At(new, mu.j) = At(old, mu.i)
                /\ \A p \in Positions(old) \ {mu.i, mu.j} : At(new, p) = At(old, p)
                /\ SameMultiset(new, old)
            /\ mu.kind = "Reverse" =>
                /\ Len(new) = Len(old)
                /\ \A p \in lo..hi : At(new, p) = At(old, lo + hi - p)
                /\ \A p \in Positions(old) \ (lo..hi) : At(new, p) = At(old, p)
                /\ SameMultiset(new, old)

\* The reverse of the tests, one size down: the slice 1..=2 of four elements
\* is reversed and the elements around it stay.
ApplyEffectWitness ==
    /\ Applied
    /\ vec_mutation = VecMutation("Reverse", 2, 1, NaN)
    /\ vec_target = <<Num(0), Num(1), Num(2), Num(0)>>
    /\ vec_applied = <<Num(0), Num(2), Num(1), Num(0)>>

(***************************************************************************)
(* C25. With mutation_rate = 0, check_mutate never returns true and        *)
(* Mutator::mutate is the identity on every target: f64 and bool values,   *)
(* activation genes, and whole neuron, layer and network genomes come back *)
(* unchanged, the order and the values of the weights included.            *)
(***************************************************************************)
TargetMutated == pc = "target_mutated"

RateZeroIdentity ==
    (pc \in {"target", "target_mutated"} /\ mutator.mutation_rate = Num(0)) =>
        /\ check_mutate(mutator) = {FALSE}
        /\ target_mutated = target

\* A network whose neuron has two weights that differ came back from a
\* mutator of rate 0 and size 1.
RateZeroIdentityWitness ==
    /\ TargetMutated
    /\ mutator = Mutator(Num(0), Num(1))
    /\ target.kind = "network"
    /\ target.val = NetworkGenome(<<LayerGenome(<<PairNeuron>>)>>)
    /\ target_mutated = target

(***************************************************************************)
(* C26. The generation returned by Run::run is as long as the ranked pool, *)
(* that is, as the number of input genomes whose fitness evaluation        *)
(* succeeded: the breed loop aims at the length of the pool and the        *)
(* injection keeps the length; run returns an empty generation when given  *)
(* an empty one.                                                           *)
(***************************************************************************)
Evaluated == {i \in 1..Len(generation) : ~Fails(generation[i])}

ReturnedLength ==
    /\ Ranked => Len(ranked_generation) = Cardinality(Evaluated)
    /\ Injecting =>
        /\ Len(next_generation) = Len(ranked_generation)
        /\ Len(result) = Len(next_generation)
    /\ Returned =>
        /\ Len(result) = Cardinality(Evaluated)
        /\ generation = <<>> => result = <<>>

\* run has returned two genomes for three, one of which failed, after an
\* elite was injected.
ReturnedLengthWitness ==
    /\ Returned
    /\ Len(generation) = 3
    /\ Cardinality(Evaluated) = 2
    /\ Len(result) = 2
    /\ Len(slots) >= 1

(***************************************************************************)
(* C27. Within Run::run the injection never draws an index from an empty   *)
(* range and never indexes out of bounds: at the injection there are at    *)
(* most as many elites as the next generation is long, there is none when  *)
(* the next generation is empty, and every index drawn is one of the       *)
(* generation, whatever the elitism and the input.                         *)
(***************************************************************************)
InjectionInBounds ==
    /\ pc # "panic"
    /\ Injecting =>
        /\ Len(elite) + Len(slots) <= Len(result)
        /\ result = <<>> => elite = <<>>
        /\ \A p \in 1..Len(slots) : slots[p] \in 1..Len(result)

\* An elitism of two was cut down to the pool of one genome, which is about
\* to be injected into the next generation of one.
InjectionInBoundsWitness ==
    /\ pc = "inject"
    /\ elitism = 2
    /\ Len(elite) = 1
    /\ Len(result) = 1
    /\ slots = <<>>

(***************************************************************************)
(* C28. The transposition of a neuron never indexes out of bounds:         *)
(* mutate_weights generates a VecMutation only when the weights that are   *)
(* numbers have min < max, so the length given to VecMutation::new is at   *)
(* least 2, every generated index is below the length of the weights and a *)
(* replacement value lies in [min, max]; weights that are empty, all       *)
(* equal, or hold fewer than two numbers are left as they were.            *)
(***************************************************************************)
FiniteWeights(weights) == SelectSeq(weights, LAMBDA n : is_finite(n) /\ ~is_nan(n))

\* No two weights that are numbers differ.
NoSpread(weights) ==
    \/ weights = <<>>
    \/ Len(FiniteWeights(weights)) < 2
    \/ \A a, b \in 1..Len(weights) :
          F_partial_cmp(weights[a], weights[b]) = "Equal"

\* The mutation mu was generated within the bounds of the weights.
WithinBounds(mu, weights) ==
    LET numbers == FiniteWeights(weights)
    IN  /\ Len(numbers) >= 2
        /\ \E a, b \in 1..Len(numbers) : F_lt(numbers[a], numbers[b])
        /\ Len(weights) >= 2
        /\ mu.i < Len(weights)
        /\ mu.j < Len(weights)
        /\ mu.kind \in {"Insert", "Replace"} =>
              /\ is_finite(mu.element)
              /\ \E k \in 1..Len(numbers) : ~F_lt(mu.element, numbers[k])
              /\ \E k \in 1..Len(numbers) : ~F_lt(numbers[k], mu.element)

StructureStep ==
    pc = "mutate_weights" =>
        /\ vec_mutation' # NoVecMutation => WithinBounds(vec_mutation', mutated.weights)
        /\ NoSpread(mutated.weights) =>
              /\ mutated'.weights = mutated.weights
              /\ vec_mutation' = NoVecMutation

StructureInBounds == [][StructureStep]_vars

\* Of the weights 0 and 2, the first was replaced by 1.
StructureInBoundsWitness ==
    /\ pc = "mutated"
    /\ neuron.weights = <<Num(0), Num(2)>>
    /\ vec_mutation = VecMutation("Replace", 0, 0, Num(1))
    /\ mutated.weights = <<Num(1), Num(2)>>

(***************************************************************************)
(* C29. A mutation_size of 0 does not switch mutation off: the gate        *)
(* mutation_size() > 0.0 never opens, so the mutation of an f64, a bool    *)
(* and an activation gene is the identity, yet the mutate of a neuron can  *)
(* still change the weights by the transposition (Swap, Replace or         *)
(* Reverse), which check_mutate alone gates, whenever mutation_rate > 0.   *)
(***************************************************************************)
SizeZero == pc \in {"target", "target_mutated"} /\ mutator.mutation_size = Num(0)

\* The weights differ by a Swap or a Reverse (the same values in another
\* order) or by a Replace (one position changed).
Transposed(old, new) ==
    /\ Len(new) = Len(old)
    /\ \/ SameMultiset(old, new)
       \/ Cardinality({p \in 1..Len(old) : new[p] # old[p]}) = 1

ValuesKept ==
    SizeZero =>
        /\ MutationGate(mutator) = {FALSE}
        /\ target.kind \in {"f64", "bool", "gene"} => target_mutated = target
        /\ target.kind = "neuron" =>
              /\ target_mutated.val.activator = target.val.activator
              /\ target_mutated.val.bias = target.val.bias
              /\ Transposed(target.val.weights, target_mutated.val.weights)

\* A neuron whose weights hold two different numbers has an outcome of
\* mutate with other weights.
WeightsCanChange ==
    (/\ SizeZero
     /\ F_lt(Num(0), mutator.mutation_rate)
     /\ target.kind = "neuron"
     /\ ~NoSpread(target.val.weights)) =>
        \E g \in Neuron_mutate(target.val, mutator) : g.weights # target.val.weights

SizeZeroStillMutates == ValuesKept /\ WeightsCanChange

\* With a size of 0 and a rate of 1/2 the weights 0, 2 came back as 2, 0.
SizeZeroStillMutatesWitness ==
    /\ TargetMutated
    /\ mutator = Mutator(Fin(1, 2), Num(0))
    /\ target.kind = "neuron"
    /\ target.val.weights = <<Num(0), Num(2)>>
    /\ target_mutated.val.weights = <<Num(2), Num(0)>>

(***************************************************************************)
(* C30. The structure of the genomes is kept through the generations: when *)
(* every genome of the input generation has the same number of layers, of  *)
(* neurons in each layer and of weights in each neuron, so has every       *)
(* offspring of a crossover followed by a mutation, and every genome of    *)
(* the generation that any number of calls of Run::run returns.            *)
(***************************************************************************)
\* The number of weights of each neuron of each layer.
Shape(network) ==
    [l \in 1..Len(network.layers) |->
        [n \in 1..Len(network.layers[l].neurons) |->
            Len(network.layers[l].neurons[n].weights)]]

InputShape == <<<<2>>>>

ShapePreserved ==
    pc \in {"shape_breed", "shape_return"} =>
        /\ \A g \in 1..Len(population) : Shape(population[g]) = InputShape
        /\ \A g \in 1..Len(next_generation) : Shape(next_generation[g]) = InputShape

\* The second call of Run::run has bred an offspring; the generation it
\* works on is not the input any more.
ShapePreservedWitness ==
    /\ pc = "shape_breed"
    /\ bred = Len(population) + 1
    /\ Len(next_generation) = 1
    /\ \A g \in 1..Len(population) :
          population[g].layers[1].neurons[1].weights # <<Num(0), Num(2)>>
    /\ next_generation[1].layers[1].neurons[1].weights \notin
          {population[g].layers[1].neurons[1].weights : g \in 1..Len(population)}

====
